---- MODULE Spec2Model ----
(***************************************************************************)
(* A model of the AI podcast creator: the task driver of api.py            *)
(* (process_video_task and the endpoints that touch its files), the        *)
(* pipeline of main.py (create_podcast_video with its two thread pools),   *)
(* and the helpers of api_client.py, media_processor.py and                *)
(* video_generator.py the pipeline calls.                                  *)
(*                                                                         *)
(* Times are integers in milliseconds.  A path or an audio reference is a  *)
(* sequence of one-character strings.  An exception is the string that     *)
(* str(e) gives.                                                           *)
(***************************************************************************)
EXTENDS Integers, Sequences, FiniteSets, TLC

(* ------------------------------------------------------------------ *)
(* Bounds of the model                                                 *)
(* ------------------------------------------------------------------ *)

\* The line provider returns at most this many lines.
MaxFetched == 2

\* Request.max_lines ranges over 0 .. MaxLimit.
MaxLimit == 1

(* ------------------------------------------------------------------ *)
(* Program constants                                                   *)
(* ------------------------------------------------------------------ *)

\* config.py reads the three of them from the environment (defaults 1, 4
\* and 50); the model runs with two workers per pool and batches of one
\* line, so that two lines make two batches.
MAX_DOWNLOAD_THREADS == 2
MAX_VIDEO_THREADS == 2
SEGMENT_BATCH_SIZE == 1

\* download_audio's default max_retries.
DEFAULT_MAX_RETRIES == 3

\* get_audio_duration's fallback, 3.0 s.
DEFAULT_DURATION_MS == 3000

TaskId == "t1"

PENDING == "pending"
PROCESSING == "processing"
COMPLETED == "completed"
FAILED == "failed"

\* Python's None, for a field that holds a string.
None == "None"

(* ------------------------------------------------------------------ *)
(* Generic helpers                                                     *)
(* ------------------------------------------------------------------ *)

Range(s) == {s[i] : i \in DOMAIN s}

Min(S) == CHOOSE x \in S : \A y \in S : x <= y

\* s[a .. b-1] with 0-based a, b as a Python slice s[a:b] (clamped).
Slice(s, a, b) ==
    LET hi == IF b > Len(s) THEN Len(s) ELSE b
    IN  IF a >= hi THEN <<>> ELSE SubSeq(s, a + 1, hi)

SeqsUpTo(S, n) == UNION {[1..k -> S] : k \in 0..n}

(* ------------------------------------------------------------------ *)
(* api_client.py: the line provider's data and download_audio          *)
(* ------------------------------------------------------------------ *)

\* The audio references the provider's lines carry: none, two references
\* with the same last path component, and one with another.
NoAudio == <<>>
RefAX == <<"a", "/", "x">>
RefBX == <<"b", "/", "x">>
RefY == <<"y">>
\* A reference used where the length of the audio matters.
RefZ == <<"z">>
AudioRefs == {NoAudio, RefAX, RefBX, RefY}

\* The length of the audio the provider serves for a reference.
AudioLength(ref) ==
    CASE ref = RefAX -> 1000
      [] ref = RefBX -> 2000
      [] ref = RefY -> 1500
      [] ref = RefZ -> 2300
      [] OTHER -> 0

\* The exception classes download_audio catches and retries.
TransientErrors == {"HTTPError", "ChunkedEncodingError", "ConnectionError", "Timeout"}

\* What one attempt of download_audio can end with: the bytes, a retried
\* error class, or another exception.
AttemptOutcomes == {"ok"} \cup TransientErrors \cup {"ValueError"}

\* raise None
RaiseNoneError == "TypeError"

\* The outcome of attempt number attempt (0-based) under a fault injector
\* that lists the outcomes of the first attempts; later attempts succeed.
AttemptOutcome(faults, attempt) ==
    IF attempt + 1 <= Len(faults) THEN faults[attempt + 1] ELSE "ok"

\* A bug: the same wait before every retry.
BackoffFlat(attempt) == 2

\* time.sleep((attempt + 1) * 2)
Backoff(attempt) == (attempt + 1) * 2

\* if attempt < max_retries - 1: time.sleep(...)
SleepsAfter(sleeps, attempt, max_retries) ==
    IF attempt < max_retries - 1 THEN Append(sleeps, Backoff(attempt)) ELSE sleeps

\* A bug: range(max_retries + 1).
LoopEndsOneLate(attempt, max_retries) == attempt > max_retries

\* range(max_retries) is exhausted.
LoopEnds(attempt, max_retries) == attempt >= max_retries

\* for attempt in range(max_retries): ... ; raise last_error
RECURSIVE DownloadLoop(_, _, _, _, _)
DownloadLoop(faults, max_retries, attempt, last_error, sleeps) ==
    IF LoopEnds(attempt, max_retries)
    THEN [raised |-> TRUE,
          error |-> IF last_error = None THEN RaiseNoneError ELSE last_error,
          attempts |-> attempt, sleeps |-> sleeps]
    ELSE LET outcome == AttemptOutcome(faults, attempt)
         IN  IF outcome = "ok"
             THEN [raised |-> FALSE, error |-> None,
                   attempts |-> attempt + 1, sleeps |-> sleeps]
             ELSE IF outcome \in TransientErrors
             THEN DownloadLoop(faults, max_retries, attempt + 1, outcome,
                               SleepsAfter(sleeps, attempt, max_retries))
             ELSE [raised |-> TRUE, error |-> outcome,
                   attempts |-> attempt + 1, sleeps |-> sleeps]

download_audio(faults, max_retries) ==
    DownloadLoop(faults, max_retries, 0, None, <<>>)

(* ------------------------------------------------------------------ *)
(* main.py, download_single_audio: the cache file of a line            *)
(* ------------------------------------------------------------------ *)

\* urlparse(audio_path).path: up to the first "?" or "#".
RECURSIVE UrlPath(_)
UrlPath(p) ==
    IF p = <<>> \/ Head(p) \in {"?", "#"} THEN <<>>
    ELSE <<Head(p)>> \o UrlPath(Tail(p))

\* os.path.basename: what follows the last "/".
RECURSIVE Basename(_)
Basename(p) ==
    IF p = <<>> THEN <<>>
    ELSE IF p[Len(p)] = "/" THEN <<>>
    ELSE Basename(SubSeq(p, 1, Len(p) - 1)) \o <<p[Len(p)]>>

\* x.isalnum() or x in "._- "
SafeChars == {"a", "b", "x", "y", "0", "1", "2", ".", "_", "-", " "}
IsSafeChar(c) == c \in SafeChars

\* f"audio_{i:03d}.wav", the name used when the reference has no basename.
FallbackName(i) == <<"a", "u", "d", "i", "o", "_", ToString(i)>>

\* Lines 139-146: the cache file name of line i (0-based) with reference ref.
CacheFileName(i, ref) ==
    LET filename == Basename(UrlPath(ref))
        named == IF filename = <<>> \/ filename = <<".">> THEN FallbackName(i) ELSE filename
    IN  SelectSeq(named, IsSafeChar)

\* The cache files the references of the model can name.
CacheFiles == {CacheFileName(0, r) : r \in AudioRefs \ {NoAudio}}

\* A file of temp/audio: absent, or holding the audio of a reference, or
\* holding bytes pydub cannot decode.
AbsentFile == [exists |-> FALSE, valid |-> FALSE, ref |-> NoAudio]
CorruptFile == [exists |-> TRUE, valid |-> FALSE, ref |-> NoAudio]
AudioFile(ref) == [exists |-> TRUE, valid |-> TRUE, ref |-> ref]

(* ------------------------------------------------------------------ *)
(* media_processor.py: get_audio_duration                              *)
(* ------------------------------------------------------------------ *)

\* AudioSegment.from_file raises on a file it cannot decode or find.
DecodeFails(file) == ~file.exists \/ ~file.valid

\* get_audio_duration catches every exception of the decode and returns
\* the 3.0 s default: it never raises to its caller.
get_audio_duration(file) ==
    IF DecodeFails(file)
    THEN [raised |-> FALSE, duration |-> DEFAULT_DURATION_MS]
    ELSE [raised |-> FALSE, duration |-> AudioLength(file.ref)]


(* ------------------------------------------------------------------ *)
(* video_generator.py: create_video_segment and its CPU fallback       *)
(* ------------------------------------------------------------------ *)

\* One ffmpeg invocation of the renderer: the path that made it, the
\* encoder and preset on its command line, whether the subtitles filter
\* is in its filter graph, and its exit code.
Invocation(path, codec, preset, subs, rc) ==
    [path |-> path, codec |-> codec, preset |-> preset, subs |-> subs, rc |-> rc]

\* The segment file an invocation with exit code 0 leaves.
SegmentOf(inv) ==
    [exists |-> TRUE, codec |-> inv.codec, preset |-> inv.preset, subs |-> inv.subs]
NoSegment == [exists |-> FALSE, codec |-> None, preset |-> None, subs |-> FALSE]

VIDEO_CODEC == "libx264"

\* A bug: the fallback does not look at the exit code.
create_video_segment_cpu_unchecked(rc) ==
    LET inv == Invocation("cpu_fallback", "libx264", "ultrafast", FALSE, rc)
    IN  [raised |-> FALSE, error |-> None, invocations |-> <<inv>>,
         segment |-> [exists |-> FALSE, codec |-> None, preset |-> None, subs |-> FALSE]]

\* create_video_segment_cpu: one libx264/ultrafast invocation whose filter
\* graph has no subtitles filter (the function takes no subtitle_path).
create_video_segment_cpu(rc) ==
    LET inv == Invocation("cpu_fallback", VIDEO_CODEC, "ultrafast", FALSE, rc)
    IN  IF rc # 0
        THEN [raised |-> TRUE, error |-> "FFmpeg CPU fallback error",
              invocations |-> <<inv>>, segment |-> NoSegment]
        ELSE [raised |-> FALSE, error |-> None,
              invocations |-> <<inv>>, segment |-> SegmentOf(inv)]

\* A bug: no fallback, the GPU failure is raised.
OnNonZeroExitNoFallback(has_gpu, inv, rc2) ==
    [raised |-> TRUE, error |-> "FFmpeg error",
     invocations |-> <<inv>>, segment |-> NoSegment]

\* if result.returncode != 0: if HAS_GPU: return create_video_segment_cpu(...)
\* ; raise RuntimeError
OnNonZeroExit(has_gpu, inv, rc2) ==
    IF has_gpu
    THEN LET cpu == create_video_segment_cpu(rc2)
         IN  [cpu EXCEPT !.invocations = <<inv>> \o @]
    ELSE [raised |-> TRUE, error |-> "FFmpeg error",
          invocations |-> <<inv>>, segment |-> NoSegment]

\* create_video_segment: rc1 is the exit code of its own invocation, rc2
\* the exit code of the fallback's invocation if the fallback runs.
create_video_segment(has_gpu, has_subtitle_path, rc1, rc2) ==
    LET inv == IF has_gpu
               THEN Invocation("gpu", "h264_nvenc", "p1", has_subtitle_path, rc1)
               ELSE Invocation("cpu", VIDEO_CODEC, "ultrafast", has_subtitle_path, rc1)
    IN  IF rc1 # 0
        THEN OnNonZeroExit(has_gpu, inv, rc2)
        ELSE [raised |-> FALSE, error |-> None,
              invocations |-> <<inv>>, segment |-> SegmentOf(inv)]

\* The exit codes an ffmpeg invocation ends with in the model.
ExitCodes == {0, 1}

\* segments_dir / f"segment_{batch_idx:03d}.mp4"
SegmentFile(batch_idx) == <<"segment", batch_idx>>

(* ------------------------------------------------------------------ *)
(* State                                                               *)
(* ------------------------------------------------------------------ *)

VARIABLES
    tasks,            \* api.py: the in-memory task registry
    request,          \* the CreateVideoRequest of the task
    pc,               \* where process_video_task / create_podcast_video stands
    exc,              \* the exception being raised to process_video_task's handler
    HAS_GPU,          \* video_generator.HAS_GPU, probed at import
    script,           \* the provider's lines for the script: their audio references
    lines,            \* create_podcast_video: lines (filtered, limited)
    dirs_created,     \* temp/images, temp/audio, temp/segments were made
    cache,            \* the files of temp/audio, by file name
    dl_state,         \* acquisition pool: each future's state
    dl_ret,           \* acquisition pool: each future's result or exception
    dl_log,           \* what each download task did, in order
    results,          \* create_podcast_video: results
    audio_paths,      \* create_podcast_video: audio_paths
    audio_durations,  \* create_podcast_video: audio_durations
    cover,            \* temp/images/cover.png: "none", "placeholder", "generated"
    subtitle_file,    \* temp/subtitles.srt was written
    batch_tasks,      \* create_podcast_video: batch_tasks
    rd_state,         \* rendering pool: each future's state
    rd_ret,           \* rendering pool: each future's result or exception
    invocations,      \* the ffmpeg invocations made for each batch
    segments,         \* the segment file of each batch
    batch_results,    \* create_podcast_video: batch_results
    concat_list,      \* temp/segments.txt, the concat demuxer's list
    output,           \* output/<task_id>.mp4 and .srt: which exist
    retry_faults,     \* a download_audio call: the outcome of each attempt
    retry_max,        \* a download_audio call: max_retries
    retry_out,        \* a download_audio call: what it returned or raised
    tl_lines,         \* a timeline: the lines, each with the file of its audio
    tl_size,          \* a timeline: the batch size
    tl_tasks,         \* a timeline: batch_tasks
    tl_merged,        \* a timeline: the merged audio of each batch
    cue_lines,        \* a cue file: each line's duration and delay
    cue_file,         \* a cue file: the cues create_subtitle_file wrote
    runs,             \* two concurrent tasks: where each stands, its audio file
    temp,             \* two concurrent tasks: the files under temp/, by last writer
    image,            \* a resize_image_for_video call: sizes, and the boxes computed
    text,             \* a remove_bracketed_text call: the text, and what was returned
    out_dir,          \* a delete_file call: the names in the output directory
    reply,            \* a delete_file call: the filename, and the answer
    upload            \* an upload_and_cleanup call: its inputs, its result, the files left

vars == <<tasks, request, pc, exc, HAS_GPU, script, lines, dirs_created, cache,
          dl_state, dl_ret, dl_log, results, audio_paths, audio_durations,
          cover, subtitle_file, batch_tasks, rd_state, rd_ret, invocations,
          segments, batch_results, concat_list, output,
          retry_faults, retry_max, retry_out, tl_lines, tl_size, tl_tasks, tl_merged,
          cue_lines, cue_file, runs, temp,
          image, text, out_dir, reply, upload>>

\* The variables of the single calls checked apart from the pipeline.
retryVars == <<retry_faults, retry_max, retry_out>>
timelineVars == <<tl_lines, tl_size, tl_tasks, tl_merged>>
cueVars == <<cue_lines, cue_file>>
runsVars == <<runs, temp>>
callVars == <<image, text, out_dir, reply, upload>>

\* The variables of the two pools and of the stages between them.
acquisitionVars == <<cache, dl_state, dl_ret, dl_log, results>>
renderVars == <<rd_state, rd_ret, invocations, segments, batch_results>>
stageVars == <<lines, dirs_created, audio_paths, audio_durations, cover,
               subtitle_file, batch_tasks, concat_list>>
envVars == <<request, HAS_GPU, script, retryVars, timelineVars, cueVars, runsVars,
            callVars>>

\* An entry of results / batch_results that is still None.
Unset == <<>>

NoRet == [raised |-> FALSE, error |-> None, index |-> -1, file |-> <<>>, duration |-> 0]

NoRequest == [max_lines |-> 0, burn_subtitles |-> FALSE, skip_image_generation |-> FALSE]

Requests == [max_lines : 0..MaxLimit, burn_subtitles : BOOLEAN,
             skip_image_generation : BOOLEAN]

\* temp/audio as an earlier run may have left it (cleanup_temp_files runs
\* only at the end of a run that raised nothing): each file absent, or
\* undecodable, or holding the audio of a reference that names it.
InitialCaches ==
    {c \in [CacheFiles -> {AbsentFile, CorruptFile} \cup {AudioFile(r) : r \in AudioRefs \ {NoAudio}}] :
        /\ \A f \in CacheFiles : c[f].valid => CacheFileName(0, c[f].ref) = f
        /\ Cardinality({f \in CacheFiles : c[f].exists}) <= 1}

\* No task was created and no pipeline has run.
PipelineIdle ==
    /\ tasks = <<>>
    /\ request = NoRequest
    /\ pc = "idle"
    /\ exc = None
    /\ lines = <<>>
    /\ dirs_created = FALSE
    /\ dl_state = <<>>
    /\ dl_ret = <<>>
    /\ dl_log = <<>>
    /\ results = <<>>
    /\ audio_paths = <<>>
    /\ audio_durations = <<>>
    /\ cover = "none"
    /\ subtitle_file = FALSE
    /\ batch_tasks = <<>>
    /\ rd_state = <<>>
    /\ rd_ret = <<>>
    /\ invocations = <<>>
    /\ segments = <<>>
    /\ batch_results = <<>>
    /\ concat_list = <<>>
    /\ output = [video |-> FALSE, srt |-> FALSE, final_burn |-> FALSE]

NotCalled == [called |-> FALSE]
NoUpload == [success |-> FALSE, data |-> None, attempts |-> 0, sleeps |-> 0]

\* No download_audio call and no timeline is being checked apart.
RetryIdle == retry_faults = <<>> /\ retry_max = 0 /\ retry_out = NotCalled
TimelineIdle == tl_lines = <<>> /\ tl_size = 0 /\ tl_tasks = <<>> /\ tl_merged = <<>>
CuesIdle == cue_lines = <<>> /\ cue_file = <<>>
RunsIdle == runs = <<>> /\ temp = <<>>
CallsIdle == image = <<>> /\ text = <<>> /\ out_dir = {} /\ reply = <<>> /\ upload = <<>>

Init ==
    /\ PipelineIdle
    /\ HAS_GPU \in BOOLEAN
    /\ script \in SeqsUpTo(AudioRefs, MaxFetched)
    /\ cache \in InitialCaches
    /\ RetryIdle
    /\ TimelineIdle
    /\ CuesIdle
    /\ RunsIdle
    /\ CallsIdle

(* ------------------------------------------------------------------ *)
(* api.py: create_video and process_video_task up to the pipeline call *)
(* ------------------------------------------------------------------ *)

Task == tasks[TaskId]

\* create_video: register the task as PENDING and schedule it.
create_video_from(requests) ==
    /\ pc = "idle"
    /\ \E r \in requests : request' = r
    /\ tasks' = [t \in {TaskId} |->
                    [status |-> PENDING, progress |-> 0, message |-> "Waiting to start",
                     video_path |-> None, subtitle_path |-> None, error |-> None,
                     video_url |-> None]]
    /\ pc' = "L40"
    /\ UNCHANGED <<exc, HAS_GPU, script, retryVars, timelineVars, cueVars, runsVars,
                   callVars, acquisitionVars,
                   renderVars, stageVars, output>>

create_video == create_video_from(Requests)

\* process_video_task writes one field of its task and moves on.
WriteField(at, field, value, next) ==
    /\ pc = at
    /\ tasks' = [tasks EXCEPT ![TaskId][field] = value]
    /\ pc' = next
    /\ UNCHANGED <<exc, envVars, acquisitionVars, renderVars, stageVars, output>>

\* Line 40.
SetProcessing == WriteField("L40", "status", PROCESSING, "L41")

\* Line 41.
SetProgress10 == WriteField("L41", "progress", 10, "L54")

\* Line 54; the call of create_podcast_video follows.
SetProgress20 == WriteField("L54", "progress", 20, "c93")

(* ------------------------------------------------------------------ *)
(* main.py: create_podcast_video                                       *)
(* ------------------------------------------------------------------ *)

\* A bug: the weights of cover art and timeline are exchanged.
ProgressMapExchanged(step) ==
    CASE step = 1 -> 5 [] step = 2 -> 25 [] step = 3 -> 45
      [] step = 4 -> 40 [] step = 5 -> 85 [] step = 6 -> 100 [] OTHER -> 0

\* progress_map of update_progress.
ProgressMap(step) ==
    CASE step = 1 -> 5 [] step = 2 -> 25 [] step = 3 -> 40
      [] step = 4 -> 45 [] step = 5 -> 85 [] step = 6 -> 100 [] OTHER -> 0

\* update_progress(step, message): the callback of process_video_task
\* writes the task's progress and message.
update_progress(at, step, message, next) ==
    /\ pc = at
    /\ tasks' = [tasks EXCEPT ![TaskId].progress = ProgressMap(step),
                              ![TaskId].message = message]
    /\ pc' = next
    /\ UNCHANGED <<exc, envVars, acquisitionVars, renderVars, stageVars, output>>

\* A bug: the exception is swallowed where it was raised and the statement
\* is tried again.
RaiseAndRetry(e) ==
    /\ exc' = e
    /\ pc' = pc

\* An exception leaves create_podcast_video for the handler of
\* process_video_task.
Raise(e) ==
    /\ exc' = e
    /\ pc' = "L110"

UpdateProgress1 == update_progress("c93", 1, "Fetching script lines", "c94")

\* lines = [line for line in all_lines if line.audio_path]
WithAudio(all_lines) == SelectSeq(all_lines, LAMBDA l : l.audio_path # NoAudio)

\* A limit that forgets the test for 0.
LimitAlways(ls, max_lines) == Slice(ls, 0, max_lines)

\* if max_lines > 0: lines = lines[:max_lines]
Limit(ls, max_lines) == IF max_lines > 0 THEN Slice(ls, 0, max_lines) ELSE ls

\* get_script_lines: one ScriptLine per line of the provider's answer.
\* The delays of the provider's lines are 0 in the runs of the pipeline.
AllLines ==
    [k \in 1..Len(script) |-> [id |-> k, audio_path |-> script[k], delay_duration_ms |-> 0]]

\* A check of the fetched lines that lets everything through.
CheckLinesNever(all_lines) == None

\* Lines 97-104: the ValueError for the fetched lines, None when there is
\* a line to process.
CheckLines(all_lines) ==
    IF all_lines = <<>> THEN "No script lines found"
    ELSE IF WithAudio(all_lines) = <<>> THEN "No lines with audio found"
    ELSE None

\* Lines 94-121: fetch, filter, limit, make the scratch directories.
FetchLines ==
    /\ pc = "c94"
    /\ \/ /\ Raise("HTTPError")
          /\ UNCHANGED stageVars
       \/ /\ CheckLines(AllLines) # None
          /\ Raise(CheckLines(AllLines))
          /\ UNCHANGED stageVars
       \/ /\ CheckLines(AllLines) = None
          /\ lines' = Limit(WithAudio(AllLines), request.max_lines)
          /\ dirs_created' = TRUE
          /\ pc' = "c125"
          /\ UNCHANGED <<exc, audio_paths, audio_durations, cover, subtitle_file,
                         batch_tasks, concat_list>>
    /\ UNCHANGED <<tasks, envVars, acquisitionVars, renderVars, output>>

UpdateProgress2 == update_progress("c125", 2, "Downloading audio files", "c167")

\* Lines 167-173: results = [None] * len(lines); every download task is
\* submitted to the pool.
SubmitDownloads ==
    /\ pc = "c167"
    /\ results' = [i \in 1..Len(lines) |-> Unset]
    /\ dl_state' = [i \in 1..Len(lines) |-> "queued"]
    /\ dl_ret' = [i \in 1..Len(lines) |-> NoRet]
    /\ dl_log' = [i \in 1..Len(lines) |-> <<>>]
    /\ pc' = "c175"
    /\ UNCHANGED <<tasks, exc, envVars, cache, renderVars, stageVars, output>>

\* The futures of a pool that a worker is executing.
Running(state) == {i \in DOMAIN state : state[i] \in {"hit", "miss", "running"}}
Queued(state) == {i \in DOMAIN state : state[i] = "queued"}

\* A bug: a pool that starts a thread for every queued future.
CanStartUnbounded(state, i, max_workers) ==
    /\ Queued(state) # {}
    /\ i = Min(Queued(state))

\* A worker of a ThreadPoolExecutor with max_workers workers can take the
\* oldest queued future.
CanStart(state, i, max_workers) ==
    /\ Queued(state) # {}
    /\ i = Min(Queued(state))
    /\ Cardinality(Running(state)) < max_workers

\* The pool runs from the submit until the with block is left.
DownloadPoolOpen == pc \in {"c175", "c175x"}

\* download_single_audio, lines 139-149: a worker takes line i's task,
\* derives the cache file name and looks whether the file exists.
DownloadStart(i) ==
    /\ DownloadPoolOpen
    /\ CanStart(dl_state, i, MAX_DOWNLOAD_THREADS)
    /\ LET f == CacheFileName(i - 1, lines[i].audio_path)
       IN  dl_state' = [dl_state EXCEPT ![i] = IF cache[f].exists THEN "hit" ELSE "miss"]
    /\ UNCHANGED <<tasks, pc, exc, envVars, cache, dl_ret, dl_log, results,
                   renderVars, stageVars, output>>

\* The fault injectors of the model's download_audio calls: no fault, one
\* fault then success, faults on every attempt, an exception that is not
\* retried.
DownloadFaults ==
    {<<>>, <<"Timeout">>, <<"Timeout", "HTTPError", "ConnectionError">>, <<"ValueError">>}

\* What a download task returns or raises, with the file it leaves at its
\* cache path and the events it went through.
Returned(i, f, duration, file, log) ==
    [ret |-> [raised |-> FALSE, error |-> None, index |-> i - 1, file |-> f,
              duration |-> duration],
     file |-> file, log |-> log]
Raised(error, file, log) ==
    [ret |-> [NoRet EXCEPT !.raised = TRUE, !.error = error], file |-> file, log |-> log]

\* The events of the probe of a file: a decode error is printed and
\* swallowed by get_audio_duration.
ProbeLog(file) == IF DecodeFails(file) THEN <<"decode_error">> ELSE <<>>

\* A bug: a failed download is skipped and the line goes on with the
\* default duration.
DownloadAndProbeSkipping(i, f, ref, cached, faults, log) ==
    LET got == download_audio(faults, DEFAULT_MAX_RETRIES)
        saved == AudioFile(ref)
    IN  IF got.raised
        THEN Returned(i, f, DEFAULT_DURATION_MS, cached, log \o <<"download_raised">>)
        ELSE Returned(i, f, get_audio_duration(saved).duration, saved,
                      log \o <<"download_ok">> \o ProbeLog(saved))

\* Lines 158-164: download, save, probe. cached is the file at the cache
\* path before, log the events so far.
DownloadAndProbe(i, f, ref, cached, faults, log) ==
    LET got == download_audio(faults, DEFAULT_MAX_RETRIES)
        saved == AudioFile(ref)
    IN  IF got.raised
        THEN Raised(got.error, cached, log \o <<"download_raised">>)
        ELSE Returned(i, f, get_audio_duration(saved).duration, saved,
                      log \o <<"download_ok">> \o ProbeLog(saved))

\* Lines 149-156: the cached file is probed; an exception of the probe
\* falls through to the download.
UseCached(i, f, ref, cached, faults) ==
    LET probe == get_audio_duration(cached)
        log == <<"cached">> \o ProbeLog(cached)
    IN  IF probe.raised
        THEN DownloadAndProbe(i, f, ref, cached, faults, log)
        ELSE Returned(i, f, probe.duration, cached, log)

\* download_single_audio for line i (1-based here, i - 1 in the code)
\* after the look at line 149 found the file (hit) or not.
download_single_audio(i, ref, hit, cached, faults) ==
    LET f == CacheFileName(i - 1, ref)
    IN  IF hit
        THEN UseCached(i, f, ref, cached, faults)
        ELSE DownloadAndProbe(i, f, ref, cached, faults, <<>>)

\* download_single_audio, lines 149-164: the rest of line i's task.
DownloadFinish(i) ==
    /\ DownloadPoolOpen
    /\ dl_state[i] \in {"hit", "miss"}
    /\ LET f == CacheFileName(i - 1, lines[i].audio_path)
       IN  \E faults \in DownloadFaults :
              LET r == download_single_audio(i, lines[i].audio_path,
                                             dl_state[i] = "hit", cache[f], faults)
              IN  /\ dl_ret' = [dl_ret EXCEPT ![i] = r.ret]
                  /\ cache' = [cache EXCEPT ![f] = r.file]
                  /\ dl_log' = [dl_log EXCEPT ![i] = r.log]
    /\ dl_state' = [dl_state EXCEPT ![i] = "done"]
    /\ UNCHANGED <<tasks, pc, exc, envVars, results, renderVars, stageVars, output>>

\* The first entry of a result list that is still None.
FirstUnset(res) == Min({k \in DOMAIN res : res[k] = Unset})

\* A bug: results.append((audio_file, duration)), in completion order.
StoreResultInCompletionOrder(res, ret) ==
    [res EXCEPT ![FirstUnset(res)] = <<ret.file, ret.duration>>]

\* results[idx] = (audio_file, duration)
StoreResult(res, ret) == [res EXCEPT ![ret.index + 1] = <<ret.file, ret.duration>>]

\* Lines 175-177: as_completed yields a finished future; future.result()
\* raises its exception or gives (idx, audio_file, duration).
CollectDownload(i) ==
    /\ pc = "c175"
    /\ dl_state[i] = "done"
    /\ dl_state' = [dl_state EXCEPT ![i] = "collected"]
    /\ IF dl_ret[i].raised
       THEN /\ exc' = dl_ret[i].error
            /\ pc' = "c175x"
            /\ UNCHANGED results
       ELSE /\ results' = StoreResult(results, dl_ret[i])
            /\ pc' = IF \A j \in DOMAIN dl_state' : dl_state'[j] = "collected"
                     THEN "c180" ELSE "c175"
            /\ UNCHANGED exc
    /\ UNCHANGED <<tasks, envVars, cache, dl_ret, dl_log, renderVars, stageVars, output>>

\* A bug: shutdown(cancel_futures=True), the queued futures are dropped.
PoolIdleCancelling(state) == \A i \in DOMAIN state : state[i] \in {"queued", "done", "collected"}

\* A pool whose every future has run to its end.
PoolIdle(state) == \A i \in DOMAIN state : state[i] \in {"done", "collected"}

\* The with block is left by the exception: ThreadPoolExecutor.__exit__
\* waits for every submitted future, then the exception goes on.
DownloadPoolExit ==
    /\ pc = "c175x"
    /\ PoolIdle(dl_state)
    /\ pc' = "L110"
    /\ UNCHANGED <<tasks, exc, envVars, acquisitionVars, renderVars, stageVars, output>>

\* Lines 180-181.
ExtractResults ==
    /\ pc = "c180"
    /\ IF \E i \in DOMAIN results : results[i] = Unset
       THEN \* r[0] of an entry that is None
            /\ Raise("TypeError")
            /\ UNCHANGED <<audio_paths, audio_durations>>
       ELSE /\ audio_paths' = [i \in DOMAIN results |-> results[i][1]]
            /\ audio_durations' = [i \in DOMAIN results |-> results[i][2]]
            /\ pc' = "c185"
            /\ UNCHANGED exc
    /\ UNCHANGED <<tasks, envVars, acquisitionVars, renderVars, lines,
                   dirs_created, cover, subtitle_file, batch_tasks, concat_list, output>>


UpdateProgress3 == update_progress("c185", 3, "Generating cover image", "c186")

\* A bug: the failure of the image provider is not caught.
CoverImageFatal ==
    /\ pc = "c186"
    /\ IF request.skip_image_generation
       THEN cover' = "placeholder" /\ pc' = "c311" /\ UNCHANGED exc
       ELSE \/ cover' = "generated" /\ pc' = "c311" /\ UNCHANGED exc
            \/ Raise("Image generation failed") /\ UNCHANGED cover
    /\ UNCHANGED <<tasks, envVars, acquisitionVars, renderVars, lines,
                   dirs_created, audio_paths, audio_durations, subtitle_file,
                   batch_tasks, concat_list, output>>

\* Lines 186-304: the cover image. get_script_info's failure is caught;
\* with skip_image_generation a placeholder is drawn; otherwise
\* generate_image, save_image and resize_image_for_video run, and an
\* exception of any of them is caught and a placeholder saved.
CoverImage ==
    /\ pc = "c186"
    /\ IF request.skip_image_generation
       THEN cover' = "placeholder"
       ELSE \E generated \in BOOLEAN :
               cover' = IF generated THEN "generated" ELSE "placeholder"
    /\ pc' = "c311"
    /\ UNCHANGED <<tasks, exc, envVars, acquisitionVars, renderVars, lines,
                   dirs_created, audio_paths, audio_durations, subtitle_file,
                   batch_tasks, concat_list, output>>

UpdateProgress4 == update_progress("c311", 4, "Creating subtitles", "c312")

\* Lines 312-313: the full-run cue file temp/subtitles.srt.
CreateSubtitles ==
    /\ pc = "c312"
    /\ subtitle_file' = TRUE
    /\ pc' = "c319"
    /\ UNCHANGED <<tasks, exc, envVars, acquisitionVars, renderVars, lines,
                   dirs_created, audio_paths, audio_durations, cover,
                   batch_tasks, concat_list, output>>

UpdateProgress5 == update_progress("c319", 5, "Creating video segments", "c352")

\* num_batches = (len(lines) + SEGMENT_BATCH_SIZE - 1) // SEGMENT_BATCH_SIZE
NumBatches(n, size) == (n + size - 1) \div size

\* range(0, n, size)
BatchStarts(n, size) == {i \in 0..(n - 1) : i % size = 0}

\* A bug: each batch also takes the first line of the next one.
BatchTaskOverlapping(ls, paths, durations, i, size) ==
    [batch_idx |-> i \div size,
     batch_lines |-> Slice(ls, i, i + size + 1),
     batch_audio_paths |-> Slice(paths, i, i + size + 1),
     batch_delays |-> [k \in DOMAIN Slice(ls, i, i + size + 1) |->
                          Slice(ls, i, i + size + 1)[k].delay_duration_ms],
     batch_durations |-> Slice(durations, i, i + size + 1)]

\* Lines 352-375: the task of the batch that starts at line i (0-based).
BatchTask(ls, paths, durations, i, size) ==
    [batch_idx |-> i \div size,
     batch_lines |-> Slice(ls, i, i + size),
     batch_audio_paths |-> Slice(paths, i, i + size),
     batch_delays |-> [k \in DOMAIN Slice(ls, i, i + size) |->
                          Slice(ls, i, i + size)[k].delay_duration_ms],
     batch_durations |-> Slice(durations, i, i + size)]

\* batch_tasks, in the order of the loop.
BatchTasks(ls, paths, durations, size) ==
    LET starts == BatchStarts(Len(ls), size)
    IN  [k \in 1..Cardinality(starts) |->
            BatchTask(ls, paths, durations, (k - 1) * size, size)]

\* Lines 352-380: batch_results = [None] * num_batches; every batch task
\* is submitted to the pool.
SubmitBatches ==
    /\ pc = "c352"
    /\ batch_tasks' = BatchTasks(lines, audio_paths, audio_durations, SEGMENT_BATCH_SIZE)
    /\ batch_results' = [b \in 1..NumBatches(Len(lines), SEGMENT_BATCH_SIZE) |-> Unset]
    /\ rd_state' = [b \in DOMAIN batch_tasks' |-> "queued"]
    /\ rd_ret' = [b \in DOMAIN batch_tasks' |-> NoRet]
    /\ invocations' = [b \in DOMAIN batch_tasks' |-> <<>>]
    /\ segments' = [b \in DOMAIN batch_tasks' |-> NoSegment]
    /\ pc' = "c382"
    /\ UNCHANGED <<tasks, exc, envVars, acquisitionVars, lines, dirs_created,
                   audio_paths, audio_durations, cover, subtitle_file, concat_list, output>>

RenderPoolOpen == pc \in {"c382", "c382x"}

\* A worker takes the oldest queued batch task.
RenderStart(b) ==
    /\ RenderPoolOpen
    /\ CanStart(rd_state, b, MAX_VIDEO_THREADS)
    /\ rd_state' = [rd_state EXCEPT ![b] = "running"]
    /\ UNCHANGED <<tasks, pc, exc, envVars, acquisitionVars, rd_ret, invocations,
                   segments, batch_results, stageVars, output>>

\* create_batch_segment, lines 326-350: merge the batch's audio (an
\* exception becomes RuntimeError), write the batch's cue file when
\* burn_subs, render the segment.
create_batch_segment(task, burn_subs, has_gpu, merged, rc1, rc2) ==
    IF ~merged
    THEN [raised |-> TRUE, error |-> "Failed to merge audio for batch",
          index |-> task.batch_idx, file |-> <<>>,
          invocations |-> <<>>, segment |-> NoSegment]
    ELSE LET r == create_video_segment(has_gpu, burn_subs, rc1, rc2)
         IN  [raised |-> r.raised, error |-> r.error, index |-> task.batch_idx,
              file |-> IF r.raised THEN <<>> ELSE SegmentFile(task.batch_idx),
              invocations |-> r.invocations, segment |-> r.segment]

\* The worker runs batch b's task to its end.
RenderFinish(b) ==
    /\ RenderPoolOpen
    /\ rd_state[b] = "running"
    /\ \E merged \in BOOLEAN, rc1 \in ExitCodes, rc2 \in ExitCodes :
          LET r == create_batch_segment(batch_tasks[b], request.burn_subtitles,
                                        HAS_GPU, merged, rc1, rc2)
          IN  /\ rd_ret' = [rd_ret EXCEPT ![b] =
                              [raised |-> r.raised, error |-> r.error,
                               index |-> r.index, file |-> r.file, duration |-> 0]]
              /\ invocations' = [invocations EXCEPT ![b] = r.invocations]
              /\ segments' = [segments EXCEPT ![b] = r.segment]
    /\ rd_state' = [rd_state EXCEPT ![b] = "done"]
    /\ UNCHANGED <<tasks, pc, exc, envVars, acquisitionVars, batch_results,
                   stageVars, output>>

\* A bug: batch_results.append(segment_file), in completion order.
StoreSegmentInCompletionOrder(res, ret) == [res EXCEPT ![FirstUnset(res)] = ret.file]

\* batch_results[idx] = segment_file
StoreSegment(res, ret) == [res EXCEPT ![ret.index + 1] = ret.file]

\* Lines 382-384: as_completed yields a finished future; future.result()
\* raises its exception or gives (batch_idx, segment_file).
CollectRender(b) ==
    /\ pc = "c382"
    /\ rd_state[b] = "done"
    /\ rd_state' = [rd_state EXCEPT ![b] = "collected"]
    /\ IF rd_ret[b].raised
       THEN /\ exc' = rd_ret[b].error
            /\ pc' = "c382x"
            /\ UNCHANGED batch_results
       ELSE /\ batch_results' = StoreSegment(batch_results, rd_ret[b])
            /\ pc' = IF \A j \in DOMAIN rd_state' : rd_state'[j] = "collected"
                     THEN "c391" ELSE "c382"
            /\ UNCHANGED exc
    /\ UNCHANGED <<tasks, envVars, acquisitionVars, rd_ret, invocations, segments,
                   stageVars, output>>

\* The with block is left by the exception once every batch task has run.
RenderPoolExit ==
    /\ pc = "c382x"
    /\ PoolIdle(rd_state)
    /\ pc' = "L110"
    /\ UNCHANGED <<tasks, exc, envVars, acquisitionVars, renderVars, stageVars, output>>

UpdateProgress6 == update_progress("c391", 6, "Exporting final video", "c395")

\* create_segment_list_file: one line per entry of segment_paths, in order.
create_segment_list_file(segment_paths) ==
    [k \in 1..Len(segment_paths) |-> segment_paths[k]]

\* Lines 394-395, concatenate_segments: write temp/segments.txt, run the
\* concat demuxer with -c copy; a non-zero exit raises.
Concatenate ==
    /\ pc = "c395"
    /\ concat_list' = create_segment_list_file(batch_results)
    /\ \/ /\ pc' = "c398"
          /\ UNCHANGED exc
       \/ Raise("FFmpeg concat error")
    /\ UNCHANGED <<tasks, envVars, acquisitionVars, renderVars, lines, dirs_created,
                   audio_paths, audio_durations, cover, subtitle_file, batch_tasks, output>>

\* add_subtitles_burn_in: the subtitles filter is run over the video; if
\* ffmpeg exits non-zero the video is copied instead.
add_subtitles_burn_in(rc) == IF rc = 0 THEN "burn" ELSE "copy"

\* export_video: the pass that makes the final video, a subtitle burn or
\* a copy.
export_video(include_subtitles, has_subtitle_path, rc) ==
    IF include_subtitles /\ has_subtitle_path
    THEN add_subtitles_burn_in(rc)
    ELSE "copy"

\* Lines 398-425: export_video is called with include_subtitles=False
\* and the full-run cue file, the cue file is copied beside the video,
\* the path is returned.
Export ==
    /\ pc = "c398"
    /\ \/ /\ \E rc \in ExitCodes :
                output' = [video |-> TRUE, srt |-> TRUE,
                           final_burn |-> export_video(FALSE, subtitle_file, rc) = "burn"]
          /\ pc' = "L71"
          /\ UNCHANGED exc
       \/ \* shutil.copy of the video raises
          /\ Raise("OSError")
          /\ UNCHANGED output
       \/ \* shutil.copy of the cue file raises
          /\ \E rc \in ExitCodes :
                output' = [output EXCEPT !.video = TRUE,
                               !.final_burn = export_video(FALSE, subtitle_file, rc) = "burn"]
          /\ Raise("OSError")
    /\ UNCHANGED <<tasks, envVars, acquisitionVars, renderVars, stageVars>>


(* ------------------------------------------------------------------ *)
(* api.py: process_video_task after the pipeline returned              *)
(* ------------------------------------------------------------------ *)

\* str(OUTPUT_DIR / f"{task_id}.mp4") and the same path with .srt
ResultPath == "output/t1.mp4"
SubtitlePath == "output/t1.srt"
VideoUrl == "/api/v1/download?file=t1.mp4"

\* Line 71.
SetProgress90 == WriteField("L71", "progress", 90, "L74")

\* Line 74.
SetVideoPath == WriteField("L74", "video_path", ResultPath, "L77")

\* Lines 77-79.
SetSubtitlePath ==
    /\ pc = "L77"
    /\ tasks' = IF output.srt
                THEN [tasks EXCEPT ![TaskId].subtitle_path = SubtitlePath]
                ELSE tasks
    /\ pc' = "L81"
    /\ UNCHANGED <<exc, envVars, acquisitionVars, renderVars, stageVars, output>>

\* Line 81.
SetCompleted == WriteField("L81", "status", COMPLETED, "L82")

\* Line 82.
SetProgress100 == WriteField("L82", "progress", 100, "L83")

\* Line 83.
SetMessageUploading == WriteField("L83", "message", "Video created, uploading...", "L85")

\* Line 85.
SetMessageUpdating == WriteField("L85", "message", "Video created, updating status...", "L89")

\* Lines 89-93 and 101-102: the output file is looked for.
CheckOutput ==
    /\ pc = "L89"
    /\ IF output.video
       THEN /\ tasks' = [tasks EXCEPT ![TaskId].video_url = VideoUrl]
            /\ pc' = "L96"
       ELSE /\ tasks' = [tasks EXCEPT ![TaskId].message =
                            "Video creation reported success but file missing"]
            /\ pc' = "L103"
    /\ UNCHANGED <<exc, envVars, acquisitionVars, renderVars, stageVars, output>>

\* A bug: a failed update_script_status marks the task FAILED.
UpdateScriptStatusMarksFailed ==
    /\ pc = "L96"
    /\ \E ok \in BOOLEAN :
          tasks' = [tasks EXCEPT
                       ![TaskId].message =
                           IF ok THEN "Process completed successfully (Local)"
                           ELSE "Video created but failed to update status",
                       ![TaskId].status = IF ok THEN @ ELSE FAILED]
    /\ pc' = "L107"
    /\ UNCHANGED <<exc, envVars, acquisitionVars, renderVars, stageVars, output>>

\* Lines 95-100: update_script_status; its exception is caught.
UpdateScriptStatus ==
    /\ pc = "L96"
    /\ \E ok \in BOOLEAN :
          tasks' = [tasks EXCEPT ![TaskId].message =
                       IF ok THEN "Process completed successfully (Local)"
                       ELSE "Video created but failed to update status"]
    /\ pc' = "L107"
    /\ UNCHANGED <<exc, envVars, acquisitionVars, renderVars, stageVars, output>>

\* Line 103.
SetFailedMissing == WriteField("L103", "status", FAILED, "L107")

\* Line 107, cleanup_temp_files: everything under temp/ is removed; an
\* OSError of unlink or rmtree goes to the handler.
Cleanup ==
    /\ pc = "L107"
    /\ \/ /\ cache' = [f \in CacheFiles |-> AbsentFile]
          /\ segments' = [b \in DOMAIN segments |-> NoSegment]
          /\ cover' = "none"
          /\ subtitle_file' = FALSE
          /\ dirs_created' = FALSE
          /\ concat_list' = <<>>
          /\ pc' = "done"
          /\ UNCHANGED exc
       \/ /\ Raise("OSError")
          /\ UNCHANGED <<cache, segments, cover, subtitle_file, dirs_created, concat_list>>
    /\ UNCHANGED <<tasks, envVars, dl_state, dl_ret, dl_log, results, rd_state,
                   rd_ret, invocations, batch_results, lines, audio_paths,
                   audio_durations, batch_tasks, output>>

\* A bug: the handler leaves the progress as it was.
HandlerKeepsProgress == WriteField("L112", "progress", Task.progress, "done")

\* Lines 110-112, the except handler.
HandlerStatus == WriteField("L110", "status", FAILED, "L111")
HandlerError == WriteField("L111", "error", exc, "L112")
HandlerProgress == WriteField("L112", "progress", 0, "done")

\* delete_file("<task_id>.mp4"): the endpoint removes the video and the
\* same-stem .srt from the output directory, whenever it is called.
delete_file ==
    /\ output.video \/ output.srt
    /\ output' = [video |-> FALSE, srt |-> FALSE, final_burn |-> FALSE]
    /\ UNCHANGED <<tasks, pc, exc, envVars, acquisitionVars, renderVars, stageVars>>

Driver ==
    \/ create_video \/ SetProcessing \/ SetProgress10 \/ SetProgress20
    \/ SetProgress90 \/ SetVideoPath \/ SetSubtitlePath \/ SetCompleted
    \/ SetProgress100 \/ SetMessageUploading \/ SetMessageUpdating
    \/ CheckOutput \/ UpdateScriptStatus \/ SetFailedMissing \/ Cleanup
    \/ HandlerStatus \/ HandlerError \/ HandlerProgress

Pipeline ==
    \/ UpdateProgress1 \/ FetchLines \/ UpdateProgress2 \/ SubmitDownloads
    \/ (\E i \in DOMAIN dl_state : CollectDownload(i)) \/ DownloadPoolExit \/ ExtractResults
    \/ UpdateProgress3 \/ CoverImage \/ UpdateProgress4 \/ CreateSubtitles
    \/ UpdateProgress5 \/ SubmitBatches \/ (\E b \in DOMAIN rd_state : CollectRender(b)) \/ RenderPoolExit
    \/ UpdateProgress6 \/ Concatenate \/ Export

Workers ==
    \/ \E i \in DOMAIN dl_state : DownloadStart(i) \/ DownloadFinish(i)
    \/ \E b \in DOMAIN rd_state : RenderStart(b) \/ RenderFinish(b)

Next == Driver \/ Pipeline \/ Workers \/ delete_file

Spec == Init /\ [][Next]_vars


(* ------------------------------------------------------------------ *)
(* Properties of the task driver and the pipeline (under Spec)         *)
(* ------------------------------------------------------------------ *)

HasTask == TaskId \in DOMAIN tasks
Terminal == {COMPLETED, FAILED}
Finished(state, i) == state[i] \in {"done", "collected"}

\* C1: a task's status only moves PENDING -> PROCESSING -> COMPLETED or
\* FAILED, and once it is COMPLETED or FAILED no later step of the task
\* changes it to a different value.
C1_StatusMonotonic ==
    [][HasTask =>
         \/ tasks'[TaskId].status = tasks[TaskId].status
         \/ tasks[TaskId].status = PENDING /\ tasks'[TaskId].status = PROCESSING
         \/ tasks[TaskId].status = PROCESSING /\ tasks'[TaskId].status \in Terminal]_vars

\* C2: whatever the order in which the batch tasks complete, the segment
\* of batch index b is at position b of the list handed to
\* concatenate_segments, and the concat list file names the segments in
\* that order.
C2_SegmentsByBatchIndex ==
    /\ \A b \in DOMAIN batch_results :
          /\ batch_tasks[b].batch_idx = b - 1
          /\ batch_results[b] \in {Unset, SegmentFile(b - 1)}
          /\ batch_results[b] # Unset => rd_ret[b].file = batch_results[b]
    /\ pc \in {"c391", "c395"} =>
          /\ Len(batch_results) = Len(batch_tasks)
          /\ \A b \in DOMAIN batch_results : batch_results[b] = SegmentFile(b - 1)
    /\ pc = "c398" =>
          concat_list = [b \in 1..Len(batch_tasks) |-> SegmentFile(b - 1)]

\* Batch 1 finished after batch 0 was still rendering or queued, and its
\* segment went to position 1.
C2_Witness ==
    /\ pc = "c382"
    /\ Len(batch_results) = 2
    /\ batch_results[1] = Unset
    /\ batch_results[2] = SegmentFile(1)

\* C3: whatever the order in which the download tasks complete, the entry
\* of results at position i is the file and duration line i's task
\* produced, and after the pool audio_paths[i] and audio_durations[i] are
\* those of line i, none left unset.
C3_ResultsByLinePosition ==
    /\ \A i \in DOMAIN results :
          \/ results[i] = Unset
          \/ /\ Finished(dl_state, i)
             /\ dl_ret[i].index = i - 1
             /\ results[i] = <<CacheFileName(i - 1, lines[i].audio_path), dl_ret[i].duration>>
    /\ pc = "c180" => \A i \in DOMAIN results : results[i] # Unset
    /\ pc \in {"c185", "c186", "c311", "c312", "c319", "c352"} =>
          /\ Len(audio_paths) = Len(lines)
          /\ Len(audio_durations) = Len(lines)
          /\ \A i \in DOMAIN lines :
                /\ audio_paths[i] = CacheFileName(i - 1, lines[i].audio_path)
                /\ audio_durations[i] = dl_ret[i].duration

\* Line 1's download finished first and its result went to position 1.
C3_Witness ==
    /\ pc = "c175"
    /\ Len(results) = 2
    /\ results[1] = Unset
    /\ results[2] # Unset
    /\ results[2][2] # dl_ret[1].duration

Contains(log, e) == \E k \in DOMAIN log : log[k] = e

\* C5: when a file exists at a line's cache path and probing it fails,
\* the audio is downloaded again and the duration is the one probed from
\* the downloaded file; when the probe succeeds no download is made.
C5_CorruptCacheIsMiss ==
    \A i \in DOMAIN dl_log :
        (Finished(dl_state, i) /\ Contains(dl_log[i], "cached")) =>
            IF dl_log[i] = <<"cached">>
            THEN ~dl_ret[i].raised
            ELSE /\ Contains(dl_log[i], "download_ok") \/ Contains(dl_log[i], "download_raised")
                 /\ ~dl_ret[i].raised =>
                        dl_ret[i].duration = AudioLength(lines[i].audio_path)

\* C7: with hardware encoding, the GPU path is tried first; if it exits
\* non-zero the CPU path is invoked exactly once for the batch, and if
\* that succeeds the batch's segment is recorded and its task raises
\* nothing.
C7_GpuFallback ==
    HAS_GPU =>
      \A b \in DOMAIN rd_state :
        (Finished(rd_state, b) /\ invocations[b] # <<>>) =>
            LET inv == invocations[b]
                cpu == {k \in DOMAIN inv : inv[k].path = "cpu_fallback"}
            IN  /\ inv[1].path = "gpu"
                /\ inv[1].rc = 0 => cpu = {}
                /\ inv[1].rc # 0 =>
                      /\ cpu = {2}
                      /\ Len(inv) = 2
                      /\ inv[2].rc = 0 =>
                            /\ ~rd_ret[b].raised
                            /\ rd_ret[b].file = SegmentFile(b - 1)
                            /\ rd_state[b] = "collected" =>
                                  batch_results[b] = SegmentFile(b - 1)

\* A batch whose GPU invocation failed and whose CPU invocation succeeded
\* has its segment recorded.
C7_Witness ==
    /\ HAS_GPU
    /\ \E b \in DOMAIN rd_state :
          /\ rd_state[b] = "collected"
          /\ Len(invocations[b]) = 2
          /\ invocations[b][1].rc # 0
          /\ invocations[b][2].rc = 0
          /\ batch_results[b] = SegmentFile(b - 1)

\* C8: all segments passed to concatenate_segments were encoded with the
\* same video codec and preset.
C8_OneEncoding ==
    pc = "c395" =>
        \A a, b \in DOMAIN segments :
            /\ segments[a].codec = segments[b].codec
            /\ segments[a].preset = segments[b].preset

\* An exception left create_podcast_video: the handler was entered before
\* line 74 set the video path.
PipelineRaised == HasTask /\ exc # None /\ Task.video_path = None

\* C9: if an error escapes create_podcast_video, the task ends FAILED with
\* error the error's text and progress 0.
C9_FailedOnError ==
    (pc = "done" /\ PipelineRaised) =>
        /\ Task.status = FAILED
        /\ Task.error = exc
        /\ Task.progress = 0

\* A run that ended after the concat step raised.
C9_Witness ==
    /\ pc = "done"
    /\ PipelineRaised
    /\ exc = "FFmpeg concat error"
    /\ Task.error = "FFmpeg concat error"

\* download_audio raised for some line of the run.
DownloadRaised == \E i \in DOMAIN dl_log : Contains(dl_log[i], "download_raised")

\* C10: if download_audio raises for a line, create_podcast_video raises:
\* no batch is merged or rendered, no output video is written, and the
\* task becomes FAILED.
C10_NoPartialSuccess ==
    DownloadRaised =>
        /\ pc \in {"c175", "c175x", "L110", "L111", "L112", "done"}
        /\ batch_tasks = <<>>
        /\ rd_state = <<>>
        /\ invocations = <<>>
        /\ concat_list = <<>>
        /\ ~output.video
        /\ pc = "done" => (Task.status = FAILED /\ Task.error # None /\ PipelineRaised)

\* A run of two lines that ended FAILED: one line's audio was acquired,
\* the other's download raised.
C10_Witness ==
    /\ pc = "done"
    /\ DownloadRaised
    /\ \E i \in DOMAIN dl_ret : ~dl_ret[i].raised /\ dl_ret[i].file # <<>>
    /\ Task.status = FAILED


\* Every encode path tried for batch b exited non-zero.
EveryPathFailed(b) ==
    /\ Finished(rd_state, b)
    /\ invocations[b] # <<>>
    /\ \A k \in DOMAIN invocations[b] : invocations[b][k].rc # 0

\* C11: if for some batch every encode path exits non-zero (GPU and CPU
\* fallback, or the CPU path when there is no GPU), create_podcast_video
\* raises, concatenate_segments is never called, and the task becomes
\* FAILED.
C11_RenderFailureAborts ==
    (\E b \in DOMAIN rd_state : EveryPathFailed(b)) =>
        /\ pc \in {"c382", "c382x", "L110", "L111", "L112", "done"}
        /\ concat_list = <<>>
        /\ ~output.video
        /\ pc = "done" => (Task.status = FAILED /\ PipelineRaised)

\* A run with hardware encoding that ended FAILED after a batch's GPU
\* invocation and its CPU fallback both exited non-zero.
C11_Witness ==
    /\ pc = "done"
    /\ HAS_GPU
    /\ \E b \in DOMAIN rd_state : EveryPathFailed(b) /\ Len(invocations[b]) = 2
    /\ Task.status = FAILED
    /\ Task.error = "FFmpeg CPU fallback error"


\* C15: the final subtitle burn pass over the concatenated video is made
\* exactly when subtitle burn was requested and no per-segment burn was
\* applied; otherwise the exporter copies the video, so subtitles are
\* never burned twice.
C15_FinalBurnWhenNeeded ==
    output.video =>
        /\ output.final_burn <=>
              (request.burn_subtitles /\ \A b \in DOMAIN segments : ~segments[b].subs)
        /\ ~(output.final_burn /\ \E b \in DOMAIN segments : segments[b].subs)


(* ------------------------------------------------------------------ *)
(* A download_audio call on its own (SpecRetry)                        *)
(* ------------------------------------------------------------------ *)

\* The fault injector lists the outcome of each of the first
\* MaxAttempts attempts; max_retries ranges over 0 .. MaxAttempts.
MaxAttempts == 3

InitRetry ==
    /\ PipelineIdle
    /\ HAS_GPU = FALSE
    /\ script = <<>>
    /\ cache = [f \in CacheFiles |-> AbsentFile]
    /\ TimelineIdle
    /\ CuesIdle
    /\ RunsIdle
    /\ CallsIdle
    /\ retry_faults \in [1..MaxAttempts -> AttemptOutcomes]
    /\ retry_max \in 0..MaxAttempts
    /\ retry_out = NotCalled

\* download_audio(audio_path, max_retries) under the fault injector.
CallDownloadAudio ==
    /\ retry_out = NotCalled
    /\ retry_out' = [called |-> TRUE, result |-> download_audio(retry_faults, retry_max)]
    /\ UNCHANGED <<tasks, pc, exc, request, HAS_GPU, script, retry_faults, retry_max,
                   timelineVars, cueVars, runsVars, callVars, acquisitionVars, renderVars, stageVars,
                   output>>

NextRetry == CallDownloadAudio

SpecRetry == InitRetry /\ [][NextRetry]_vars

\* The number of attempts that fail with a retried error class before the
\* first attempt that does not.
LeadingFailures(faults) ==
    IF \A j \in DOMAIN faults : faults[j] \in TransientErrors
    THEN Len(faults)
    ELSE Min({j \in DOMAIN faults : faults[j] \notin TransientErrors}) - 1

\* C4: with max_retries = N >= 1, if the first k < N attempts fail with a
\* retried error and attempt k+1 succeeds, the call returns after exactly
\* k+1 attempts; if N attempts fail, the call makes exactly N attempts and
\* raises the error of the last attempt.
C4_RetryLaw ==
    (retry_out.called /\ retry_max >= 1) =>
        LET k == LeadingFailures(retry_faults)
            r == retry_out.result
        IN  /\ (k < retry_max /\ retry_faults[k + 1] = "ok") =>
                  (~r.raised /\ r.attempts = k + 1)
            /\ k >= retry_max =>
                  (r.raised /\ r.attempts = retry_max /\ r.error = retry_faults[retry_max])

\* Three attempts allowed, two fail, the third succeeds.
C4_Witness ==
    /\ retry_out.called
    /\ retry_max = 3
    /\ LeadingFailures(retry_faults) = 2
    /\ retry_faults[3] = "ok"
    /\ ~retry_out.result.raised
    /\ retry_out.result.attempts = 3

(* ------------------------------------------------------------------ *)
(* media_processor.py: concatenate_audios                              *)
(* ------------------------------------------------------------------ *)

\* A stretch of a merged track: the audio of the k-th file of the call,
\* or silence, with its length.
AudioPiece(k, ms) == [kind |-> "audio", line |-> k, ms |-> ms]
SilencePiece(k, ms) == [kind |-> "silence", line |-> k, ms |-> ms]

\* Lines 266-300, one turn of the loop: a file that does not load is
\* skipped with its delay; otherwise its audio is appended and, if
\* delay > 0, silence of that length.
MergeStep(combined, file, delay, k) ==
    IF DecodeFails(file)
    THEN combined
    ELSE combined \o <<AudioPiece(k, AudioLength(file.ref))>>
                  \o (IF delay > 0 THEN <<SilencePiece(k, delay)>> ELSE <<>>)

\* for audio_path, delay in zip(audio_paths, delays_ms)
RECURSIVE MergeLoop(_, _, _, _)
MergeLoop(files, delays, k, combined) ==
    IF k > Len(files) \/ k > Len(delays)
    THEN combined
    ELSE MergeLoop(files, delays, k + 1, MergeStep(combined, files[k], delays[k], k))

\* A bug: silence strictly between the lines, none after the last.
concatenate_audios_between(files, delays_ms) ==
    LET all == MergeLoop(files, delays_ms, 1, <<>>)
    IN  IF files = <<>>
        THEN [raised |-> TRUE, error |-> "No audio paths provided for concatenation",
              pieces |-> <<>>]
        ELSE [raised |-> FALSE, error |-> None,
              pieces |-> IF all # <<>> /\ all[Len(all)].kind = "silence"
                         THEN SubSeq(all, 1, Len(all) - 1) ELSE all]

\* concatenate_audios on the files at audio_paths.
concatenate_audios(files, delays_ms) ==
    IF files = <<>>
    THEN [raised |-> TRUE, error |-> "No audio paths provided for concatenation",
          pieces |-> <<>>]
    ELSE [raised |-> FALSE, error |-> None, pieces |-> MergeLoop(files, delays_ms, 1, <<>>)]

RECURSIVE TrackLength(_)
TrackLength(pieces) ==
    IF pieces = <<>> THEN 0 ELSE Head(pieces).ms + TrackLength(Tail(pieces))

(* ------------------------------------------------------------------ *)
(* The timeline of a run on its own (SpecTimeline): batches and their   *)
(* merged audio                                                        *)
(* ------------------------------------------------------------------ *)

\* A timeline has 1 .. MaxTimelineLines lines, batches of 1 .. MaxBatchSize.
MaxTimelineLines == 3
MaxBatchSize == 2

\* delay_duration_ms of the provider's lines.
Delays == {-200, 0, 500}

\* A line after acquisition: its reference, its delay and the file at its
\* cache path, which holds the reference's audio or does not decode.
TimelineLines ==
    UNION {{[audio_path |-> r, delay_duration_ms |-> d, file |-> f] :
                f \in {AudioFile(r), CorruptFile}} :
           r \in {RefAX, RefY}, d \in Delays}

InitTimeline ==
    /\ PipelineIdle
    /\ HAS_GPU = FALSE
    /\ script = <<>>
    /\ cache = [f \in CacheFiles |-> AbsentFile]
    /\ RetryIdle
    /\ CuesIdle
    /\ RunsIdle
    /\ CallsIdle
    /\ tl_lines \in UNION {[1..n -> TimelineLines] : n \in 1..MaxTimelineLines}
    /\ tl_size \in 1..MaxBatchSize
    /\ tl_tasks = <<>>
    /\ tl_merged = <<>>

\* lines, audio_paths and audio_durations as acquisition leaves them.
TlLines ==
    [k \in DOMAIN tl_lines |->
        [id |-> k, audio_path |-> tl_lines[k].audio_path,
         delay_duration_ms |-> tl_lines[k].delay_duration_ms]]
TlPaths == [k \in DOMAIN tl_lines |-> CacheFileName(k - 1, tl_lines[k].audio_path)]
TlDurations == [k \in DOMAIN tl_lines |-> get_audio_duration(tl_lines[k].file).duration]

\* main.py, lines 352-375: the batch tasks.
BuildBatches ==
    /\ tl_tasks = <<>>
    /\ tl_tasks' = BatchTasks(TlLines, TlPaths, TlDurations, tl_size)
    /\ tl_merged' = [b \in DOMAIN tl_tasks' |-> NotCalled]
    /\ UNCHANGED <<tasks, pc, exc, request, HAS_GPU, script, retryVars, cueVars, runsVars, callVars,
                   tl_lines,
                   tl_size, acquisitionVars, renderVars, stageVars, output>>

\* The files at a batch's audio paths.
BatchFiles(task) == [k \in DOMAIN task.batch_lines |-> tl_lines[task.batch_lines[k].id].file]

\* create_batch_segment, lines 326-331: the batch's audio is merged.
MergeBatch(b) ==
    /\ b \in DOMAIN tl_merged
    /\ tl_merged[b] = NotCalled
    /\ tl_merged' = [tl_merged EXCEPT ![b] =
                        [called |-> TRUE,
                         result |-> concatenate_audios(BatchFiles(tl_tasks[b]),
                                                       tl_tasks[b].batch_delays)]]
    /\ UNCHANGED <<tasks, pc, exc, request, HAS_GPU, script, retryVars, cueVars, runsVars, callVars,
                   tl_lines,
                   tl_size, tl_tasks, acquisitionVars, renderVars, stageVars, output>>

NextTimeline == BuildBatches \/ \E b \in DOMAIN tl_merged : MergeBatch(b)

SpecTimeline == InitTimeline /\ [][NextTimeline]_vars

RECURSIVE SumOver(_, _)
SumOver(S, f) ==
    IF S = {} THEN 0
    ELSE LET x == CHOOSE y \in S : TRUE IN f[x] + SumOver(S \ {x}, f)

Merged(b) == b \in DOMAIN tl_merged /\ tl_merged[b].called /\ ~tl_merged[b].result.raised

\* Every file of the batch decodes and no delay is negative.
CleanBatch(b) ==
    \A k \in DOMAIN tl_tasks[b].batch_lines :
        /\ ~DecodeFails(BatchFiles(tl_tasks[b])[k])
        /\ tl_tasks[b].batch_delays[k] >= 0

\* C6: the merged audio of a batch is line audio 1, silence of delay 1,
\* ..., line audio n with no silence after the last line, so its duration
\* is the sum of the lines' (duration + delay) minus the last line's
\* delay. (Stated for the batches whose files all decode.)
C6_NoSilenceAfterLastLine ==
    \A b \in DOMAIN tl_merged :
        (Merged(b) /\ CleanBatch(b)) =>
            LET t == tl_tasks[b]
                n == Len(t.batch_lines)
                p == tl_merged[b].result.pieces
                Whole == [k \in 1..n |-> t.batch_durations[k] + t.batch_delays[k]]
            IN  /\ p[Len(p)].kind = "audio"
                /\ TrackLength(p) = SumOver(1..n, Whole) - t.batch_delays[n]

\* C6 as amended: the merged audio of a batch holds, for each line of the
\* batch whose file decodes, in line order, the line's audio followed by
\* silence of the line's delay when the delay is positive, also after the
\* batch's last line; its duration is the sum over those lines of
\* duration + max(delay, 0).
C6_SilenceAfterEveryLine ==
    \A b \in DOMAIN tl_merged :
        Merged(b) =>
            LET t == tl_tasks[b]
                files == BatchFiles(t)
                p == tl_merged[b].result.pieces
                loaded == {k \in DOMAIN files : ~DecodeFails(files[k])}
                audio == {j \in DOMAIN p : p[j].kind = "audio"}
                Played == [k \in DOMAIN files |->
                              AudioLength(files[k].ref)
                              + (IF t.batch_delays[k] > 0 THEN t.batch_delays[k] ELSE 0)]
            IN  /\ {p[j].line : j \in audio} = loaded
                /\ \A i, j \in audio : i < j => p[i].line < p[j].line
                /\ \A j \in audio :
                      /\ p[j].ms = AudioLength(files[p[j].line].ref)
                      /\ t.batch_delays[p[j].line] > 0 =>
                            /\ j + 1 \in DOMAIN p
                            /\ p[j + 1] = SilencePiece(p[j].line, t.batch_delays[p[j].line])
                /\ \A j \in DOMAIN p \ audio :
                      /\ j - 1 \in audio
                      /\ p[j - 1].line = p[j].line
                      /\ p[j].ms = t.batch_delays[p[j].line]
                      /\ p[j].ms > 0
                /\ TrackLength(p) = SumOver(loaded, Played)

\* A merged batch of two lines whose files decode and whose last line has
\* a positive delay: the track ends with that silence.
C6_Witness ==
    \E b \in DOMAIN tl_merged :
        /\ Merged(b)
        /\ CleanBatch(b)
        /\ Len(tl_tasks[b].batch_lines) = 2
        /\ tl_tasks[b].batch_delays[2] > 0
        /\ tl_merged[b].result.pieces[Len(tl_merged[b].result.pieces)]
              = SilencePiece(2, tl_tasks[b].batch_delays[2])


\* The lines whose audio is in a merged track, in the order of the track.
LinesPlayed(pieces) ==
    LET audio == SelectSeq(pieces, LAMBDA x : x.kind = "audio")
    IN  [j \in DOMAIN audio |-> audio[j].line]

\* C33: the merged audio of a batch holds the audio of every line of
\* the batch exactly once, in line order; when a line's audio file cannot
\* be loaded the merge raises, so that the batch fails, and no track
\* without the line is exported.
C33_NoLineLeftOut ==
    \A b \in DOMAIN tl_merged :
        tl_merged[b].called =>
            IF \E k \in DOMAIN BatchFiles(tl_tasks[b]) : DecodeFails(BatchFiles(tl_tasks[b])[k])
            THEN tl_merged[b].result.raised
            ELSE /\ ~tl_merged[b].result.raised
                 /\ LinesPlayed(tl_merged[b].result.pieces)
                       = [k \in DOMAIN tl_tasks[b].batch_lines |-> k]

\* A batch of two lines was merged without raising, and the track holds
\* the second line only: the first line's file did not load.
C33_LineLeftOut ==
    \E b \in DOMAIN tl_merged :
        /\ Merged(b)
        /\ Len(tl_tasks[b].batch_lines) = 2
        /\ DecodeFails(BatchFiles(tl_tasks[b])[1])
        /\ LinesPlayed(tl_merged[b].result.pieces) = <<2>>

\* What holds of C33: the lines in a merged track are those of the batch
\* whose file loads, each once, in line order.
LoadedLinesInOrder ==
    \A b \in DOMAIN tl_merged :
        Merged(b) =>
            LinesPlayed(tl_merged[b].result.pieces)
              = SelectSeq([k \in DOMAIN tl_tasks[b].batch_lines |-> k],
                          LAMBDA k : ~DecodeFails(BatchFiles(tl_tasks[b])[k]))


(* ------------------------------------------------------------------ *)
(* The batch partition on its own (SpecPartition)                      *)
(* ------------------------------------------------------------------ *)

\* 1 .. MaxPartitionLines lines are cut into batches of 1 .. MaxPartitionSize.
MaxPartitionLines == 5
MaxPartitionSize == 3

\* Lines that differ in their position and their delay only.
PartitionLines ==
    {[audio_path |-> RefAX, delay_duration_ms |-> d, file |-> AudioFile(RefAX)] :
        d \in {0, 500}}

InitPartition ==
    /\ PipelineIdle
    /\ HAS_GPU = FALSE
    /\ script = <<>>
    /\ cache = [f \in CacheFiles |-> AbsentFile]
    /\ RetryIdle
    /\ CuesIdle
    /\ RunsIdle
    /\ CallsIdle
    /\ tl_lines \in UNION {[1..n -> PartitionLines] : n \in 1..MaxPartitionLines}
    /\ tl_size \in 1..MaxPartitionSize
    /\ tl_tasks = <<>>
    /\ tl_merged = <<>>

NextPartition == BuildBatches

SpecPartition == InitPartition /\ [][NextPartition]_vars

\* ceil(n / B)
CeilDiv(n, B) == CHOOSE k \in 0..n : k * B >= n /\ (k - 1) * B < n

\* The 0-based line indices a batch task holds, in its order.
BatchIndices(task) == [k \in DOMAIN task.batch_lines |-> task.batch_lines[k].id - 1]

\* C12: for n >= 1 lines and batch size B >= 1 the batch tasks are exactly
\* ceil(n/B) batches; batch b holds the contiguous line indices
\* b*B .. min((b+1)*B, n)-1 in order, so every line index is in exactly
\* one batch and every batch is non-empty and of size <= B.
C12_BatchPartition ==
    tl_tasks # <<>> =>
        LET n == Len(tl_lines)
            B == tl_size
        IN  /\ Len(tl_tasks) = CeilDiv(n, B)
            /\ NumBatches(n, B) = CeilDiv(n, B)
            /\ \A k \in DOMAIN tl_tasks :
                  LET b == k - 1
                      t == tl_tasks[k]
                      last == Min({(b + 1) * B, n}) - 1
                  IN  /\ t.batch_idx = b
                      /\ BatchIndices(t) = [j \in 1..(last - b * B + 1) |-> b * B + j - 1]
                      /\ Len(t.batch_lines) \in 1..B
                      /\ Len(t.batch_audio_paths) = Len(t.batch_lines)
                      /\ Len(t.batch_delays) = Len(t.batch_lines)
                      /\ Len(t.batch_durations) = Len(t.batch_lines)
                      /\ \A j \in DOMAIN t.batch_lines :
                            t.batch_delays[j] = tl_lines[b * B + j].delay_duration_ms
            /\ \A i \in 0..(n - 1) :
                  Cardinality({k \in DOMAIN tl_tasks :
                      \E j \in DOMAIN tl_tasks[k].batch_lines :
                          BatchIndices(tl_tasks[k])[j] = i}) = 1

\* Five lines in batches of two: [0,1], [2,3], [4].
C12_Witness ==
    /\ Len(tl_lines) = 5
    /\ tl_size = 2
    /\ Len(tl_tasks) = 3
    /\ BatchIndices(tl_tasks[1]) = <<0, 1>>
    /\ BatchIndices(tl_tasks[2]) = <<2, 3>>
    /\ BatchIndices(tl_tasks[3]) = <<4>>


(* ------------------------------------------------------------------ *)
(* Python floats                                                       *)
(* ------------------------------------------------------------------ *)

\* The times of create_subtitle_file are Python floats (IEEE 754
\* doubles, round to nearest even).  A double near ms / 1000 is written
\* [ms, u]: it is exactly (ms * 2^60 + u) / (1000 * 2^60).  The form
\* holds every double from 0.004 up to 64, which the times of the model
\* stay within, and u stays small enough for 32-bit integers.
Float(ms, u) == [ms |-> ms, u |-> u]

RECURSIVE Pow2(_)
Pow2(k) == IF k <= 0 THEN 1 ELSE 2 * Pow2(k - 1)

\* a mod m with 0 <= result < m, also for negative a.
Mod(a, m) == ((a % m) + m) % m

\* ms * 2^k mod m, for k a multiple of 4.
RECURSIVE ShiftMod(_, _, _)
ShiftMod(ms, k, m) == IF k = 0 THEN Mod(ms, m) ELSE Mod(16 * ShiftMod(ms, k - 4, m), m)

\* 1000 * 2^e <= ms < 1000 * 2^(e+1)
InBinade(ms, e) ==
    IF e >= 0
    THEN 1000 * Pow2(e) <= ms /\ ms < 2000 * Pow2(e)
    ELSE 1000 <= ms * Pow2(-e) /\ ms * Pow2(-e) < 2000

\* The exponent of the positive real (ms * 2^60 + u) / (1000 * 2^60).
Binade(ms, u) ==
    LET e == CHOOSE x \in -8..5 : InBinade(ms, x)
        low == IF e >= 0 THEN ms = 1000 * Pow2(e) ELSE ms * Pow2(-e) = 1000
    IN  IF low /\ u < 0 THEN e - 1 ELSE e

\* The distance between neighbouring doubles of exponent e, in 2^-60.
Ulp(e) == Pow2(e + 8)

\* The double nearest to the positive real (ms * 2^60 + u) / (1000 * 2^60),
\* ties to the even mantissa; 0 for 0.
RoundToDouble(ms, u) ==
    IF ms = 0 /\ u = 0 THEN Float(0, 0)
    ELSE LET step == 1000 * Ulp(Binade(ms, u))
             rem == Mod(ShiftMod(ms, 60, step) + Mod(u, step), step)
             even == Mod(ShiftMod(ms, 60, 2 * step) + Mod(u, 2 * step), 2 * step) < step
         IN  IF 2 * rem < step \/ (2 * rem = step /\ even)
             THEN Float(ms, u - rem)
             ELSE Float(ms, u + step - rem)

\* a + b for a >= 0 and a + b > 0 or a = b = 0.
FloatAdd(a, b) == RoundToDouble(a.ms + b.ms, a.u + b.u)

\* n / 1000.0 for an int n.
DivBy1000(n) ==
    IF n >= 0 THEN RoundToDouble(n, 0)
    ELSE Float(n, -RoundToDouble(-n, 0).u)

\* int(x) for x >= 0.
FloatInt(x) == (x.ms \div 1000) - (IF x.ms % 1000 = 0 /\ x.u < 0 THEN 1 ELSE 0)

\* int((x - int(x)) * 1000) for x >= 0.  The subtraction is exact; the
\* product f + x.u / 2^60 (f the milliseconds left) is rounded to a
\* double, then truncated.
FracMillis(x) ==
    LET f == x.ms - 1000 * FloatInt(x)
        e == CHOOSE k \in 0..9 : Pow2(k) <= f /\ f < Pow2(k + 1)
        g == Ulp(IF f = Pow2(e) /\ x.u < 0 THEN e - 1 ELSE e)
        rem == Mod(x.u, g)
        down == x.u - rem
        rounded == IF 2 * rem < g \/ (2 * rem = g /\ Mod(down \div g, 2) = 0)
                   THEN down ELSE down + g
    IN  IF f = 0 THEN 0
        ELSE IF rounded < 0 THEN f - 1 ELSE f

(* ------------------------------------------------------------------ *)
(* media_processor.py: format_time_srt and create_subtitle_file        *)
(* ------------------------------------------------------------------ *)

\* format_time_srt(seconds) for seconds >= 0: the fields of
\* HH:MM:SS,mmm.  // and % of a float by 3600 and 60 are exact.
format_time_srt(seconds) ==
    [hours |-> FloatInt(seconds) \div 3600,
     minutes |-> (FloatInt(seconds) % 3600) \div 60,
     secs |-> FloatInt(seconds) % 60,
     millis |-> FracMillis(seconds)]

\* Lines 173-184: start_time = current_time; end_time = current_time +
\* duration; the entry carries both, formatted.
CueEntry(i, current_time, duration) ==
    [index |-> i,
     start |-> format_time_srt(current_time),
     end |-> format_time_srt(FloatAdd(current_time, duration))]

\* Line 187: current_time = end_time + (line.delay_duration_ms / 1000.0)
NextCurrentTime(current_time, duration, delay_duration_ms) ==
    FloatAdd(FloatAdd(current_time, duration), DivBy1000(delay_duration_ms))

\* Lines 172-187: the cues from cue i on, current_time being the clock.
RECURSIVE CueLoop(_, _, _, _)
CueLoop(ls, durations, i, current_time) ==
    IF i > Len(ls) \/ i > Len(durations)
    THEN <<>>
    ELSE <<CueEntry(i, current_time, durations[i])>>
         \o CueLoop(ls, durations, i + 1,
                    NextCurrentTime(current_time, durations[i], ls[i].delay_duration_ms))

\* create_subtitle_file(lines, audio_durations, output_path): the cues of
\* the file, without their text.
create_subtitle_file(ls, durations) == CueLoop(ls, durations, 1, Float(0, 0))

(* ------------------------------------------------------------------ *)
(* A cue file on its own (SpecCues)                                    *)
(* ------------------------------------------------------------------ *)

\* A cue file has 1 .. MaxCueLines lines.
MaxCueLines == 3

\* The lengths of the lines' audio, in ms: pydub's duration_seconds is
\* frame_count / frame_rate, the double nearest to ms / 1000.
CueDurations == {1000, 1500, 2300}

\* Five lines of 2.0, 1.5, 3.0, 1.0, 2.5 s with delays 500, 500, 0, 1000,
\* 0 ms.
ExampleCueLines ==
    <<[duration_ms |-> 2000, delay_duration_ms |-> 500],
      [duration_ms |-> 1500, delay_duration_ms |-> 500],
      [duration_ms |-> 3000, delay_duration_ms |-> 0],
      [duration_ms |-> 1000, delay_duration_ms |-> 1000],
      [duration_ms |-> 2500, delay_duration_ms |-> 0]>>

InitCues ==
    /\ PipelineIdle
    /\ HAS_GPU = FALSE
    /\ script = <<>>
    /\ cache = [f \in CacheFiles |-> AbsentFile]
    /\ RetryIdle
    /\ TimelineIdle
    /\ RunsIdle
    /\ CallsIdle
    /\ cue_lines \in {ExampleCueLines} \cup
          UNION {[1..n -> [duration_ms : CueDurations, delay_duration_ms : Delays]] :
                    n \in 1..MaxCueLines}
    /\ cue_file = <<>>

\* create_subtitle_file(lines, audio_durations, subtitle_file)
WriteCues ==
    /\ cue_file = <<>>
    /\ cue_file' = create_subtitle_file(cue_lines,
                       [i \in DOMAIN cue_lines |-> DivBy1000(cue_lines[i].duration_ms)])
    /\ UNCHANGED <<tasks, pc, exc, request, HAS_GPU, script, retryVars, timelineVars,
                   runsVars, callVars, cue_lines, acquisitionVars, renderVars, stageVars, output>>

NextCues == WriteCues

SpecCues == InitCues /\ [][NextCues]_vars

\* The time a stamp of the file reads, in ms.
StampMs(t) == ((t.hours * 60 + t.minutes) * 60 + t.secs) * 1000 + t.millis

\* The sum of duration + delay over the lines before line i, in ms.
RECURSIVE CueOffset(_)
CueOffset(i) ==
    IF i <= 1 THEN 0
    ELSE CueOffset(i - 1) + cue_lines[i - 1].duration_ms
                          + cue_lines[i - 1].delay_duration_ms

\* C13: cue i starts at the sum over the earlier lines of duration +
\* delay and ends at its start + duration_i; the first cue starts at 0.
C13_CueTimesAreSums ==
    \A i \in DOMAIN cue_file :
        /\ StampMs(cue_file[i].start) = CueOffset(i)
        /\ StampMs(cue_file[i].end) = CueOffset(i) + cue_lines[i].duration_ms

\* C14: consecutive cues do not overlap: the end of cue i is at or before
\* the start of cue i+1, and the gap between them is delay_i.
C14_CuesDoNotOverlap ==
    \A i \in DOMAIN cue_file :
        (i + 1) \in DOMAIN cue_file =>
            /\ StampMs(cue_file[i].end) <= StampMs(cue_file[i + 1].start)
            /\ StampMs(cue_file[i + 1].start) - StampMs(cue_file[i].end)
                  = cue_lines[i].delay_duration_ms

\* ---------------------------------------------------------------------------
\* The end of a task
\* ---------------------------------------------------------------------------

\* The except branch of line 98 wrote its message, and nothing was raised
\* to the handler of line 109 afterwards.
StatusUpdateFailed ==
    /\ HasTask
    /\ Task.message = "Video created but failed to update status"
    /\ exc = None

\* C19: after a successful render, a failure of update_script_status
\* leaves the task COMPLETED with progress 100 and a message that reports
\* the failure; the task is not FAILED because of it.
C19_StatusUpdateFailureKept ==
    StatusUpdateFailed =>
        /\ Task.status = COMPLETED
        /\ Task.progress = 100
        /\ Task.error = None
        /\ Task.video_url = VideoUrl

\* A task that ended after update_script_status failed.
C19_Witness ==
    /\ pc = "done"
    /\ StatusUpdateFailed
    /\ Task.status = COMPLETED

\* The fields of a task other than its message.
FrameFields == DOMAIN Task \ {"message"}

\* C20: once the status of a task is COMPLETED or FAILED, no field of it
\* other than message is written again.
C20_TerminalTaskIsFrozen ==
    [][(HasTask /\ Task.status \in Terminal) =>
          \A f \in FrameFields : tasks'[TaskId][f] = Task[f]]_vars

\* ---------------------------------------------------------------------------
\* Progress
\* ---------------------------------------------------------------------------

\* The labels of create_podcast_video.
PipelineLabels ==
    {"c93", "c94", "c125", "c167", "c175", "c175x", "c180", "c185", "c186", "c311",
     "c312", "c319", "c352", "c382", "c382x", "c391", "c395", "c398"}

\* The weights of fetch, acquisition, cover art, timeline, rendering and
\* export.
StageProgress == <<5, 25, 40, 45, 85, 100>>

\* C21: the progress of a task is always within 0..100, and the values
\* written at the six stage boundaries of a run are 5, 25, 40, 45, 85,
\* 100, in that order.
C21_ProgressStages ==
    /\ [](HasTask => Task.progress \in 0..100)
    /\ [](pc = "L71" => Task.progress = StageProgress[6])
    /\ [][(HasTask /\ pc \in PipelineLabels /\ tasks'[TaskId].progress # Task.progress) =>
             \/ pc = "c93" /\ tasks'[TaskId].progress = StageProgress[1]
             \/ \E k \in 1..5 : /\ Task.progress = StageProgress[k]
                                 /\ tasks'[TaskId].progress = StageProgress[k + 1]]_vars

\* create_podcast_video returned: the six stages were passed.
C21_Witness ==
    /\ pc = "L71"
    /\ Task.progress = 100
    /\ output.video

\* ---------------------------------------------------------------------------
\* Termination (SpecLive)
\* ---------------------------------------------------------------------------

\* The thread of process_video_task and the workers of its two pools are
\* scheduled: a step of theirs that stays possible is taken.  Every
\* external call of a step returns or raises within the step.
SpecLive == Spec /\ WF_vars(Driver \/ Pipeline \/ Workers)

\* C22: every submitted task eventually reaches COMPLETED or FAILED,
\* process_video_task having returned.
C22_TaskTerminates ==
    HasTask ~> (pc = "done" /\ Task.status \in Terminal)

\* A task that ended FAILED after the download of a line failed on every
\* attempt.
C22_Witness ==
    /\ pc = "done"
    /\ Task.status = FAILED
    /\ \E i \in DOMAIN dl_log : Contains(dl_log[i], "download_raised")

\* ---------------------------------------------------------------------------
\* The two pools with more tasks than workers (SpecPools): a run over a
\* script of PoolLines lines with audio, one line a batch.
\* ---------------------------------------------------------------------------

PoolLines == 3

InitPools ==
    /\ PipelineIdle
    /\ HAS_GPU = FALSE
    /\ script \in [1..PoolLines -> {RefAX, RefY}]
    /\ cache = [f \in CacheFiles |-> AbsentFile]
    /\ RetryIdle
    /\ TimelineIdle
    /\ CuesIdle
    /\ RunsIdle
    /\ CallsIdle

SpecPools == InitPools /\ [][Next]_vars

\* Every line's audio result has been recorded.
AcquisitionOver ==
    /\ dl_state # <<>>
    /\ \A i \in DOMAIN dl_state : dl_state[i] = "collected"
    /\ \A i \in DOMAIN results : results[i] # Unset

\* Every batch's segment has been recorded.
RenderingOver ==
    /\ rd_state # <<>>
    /\ \A b \in DOMAIN rd_state : rd_state[b] = "collected"
    /\ \A b \in DOMAIN batch_results : batch_results[b] # Unset

\* C23: at most MAX_DOWNLOAD_THREADS download tasks and at most
\* MAX_VIDEO_THREADS batch tasks execute at a time; no batch is merged or
\* rendered before every line's audio result is recorded, and the
\* concatenation starts only after every batch's segment is recorded.
C23_PoolsBoundedAndSequential ==
    /\ Cardinality(Running(dl_state)) <= MAX_DOWNLOAD_THREADS
    /\ Cardinality(Running(rd_state)) <= MAX_VIDEO_THREADS
    /\ Running(dl_state) = {} \/ Running(rd_state) = {}
    /\ (batch_tasks # <<>> \/ rd_state # <<>> \/ invocations # <<>>) => AcquisitionOver
    /\ (concat_list # <<>> \/ pc \in {"c391", "c395", "c398"} \/ output.video)
          => RenderingOver

\* Both workers of the acquisition pool are busy and a third download
\* task waits in the queue.
C23_Witness ==
    /\ Cardinality(Running(dl_state)) = MAX_DOWNLOAD_THREADS
    /\ Queued(dl_state) # {}

\* The same in the rendering pool.
C23_WitnessRender ==
    /\ Cardinality(Running(rd_state)) = MAX_VIDEO_THREADS
    /\ Queued(rd_state) # {}

\* ---------------------------------------------------------------------------
\* The cover image
\* ---------------------------------------------------------------------------

\* Image generation was asked for and the except branch of line 299 drew
\* the placeholder.
ImageFailed == HasTask /\ ~request.skip_image_generation /\ cover = "placeholder"

Limb == Pow2(16)

BigZero == <<0, 0, 0, 0>>

BigOfInt(n) == <<n % Limb, n \div Limb, 0, 0>>

LimbAt(X, i) == IF i \in 1..4 THEN X[i] ELSE 0

\* X * k and X + k for a small k.
BigMulSmall(X, k) ==
    LET ms1 == X[1] * k
        ms2 == X[2] * k + (ms1 \div Limb)
        ms3 == X[3] * k + (ms2 \div Limb)
        ms4 == X[4] * k + (ms3 \div Limb)
    IN  <<ms1 % Limb, ms2 % Limb, ms3 % Limb, ms4 % Limb>>

BigAddSmall(X, k) ==
    LET as1 == X[1] + k
        as2 == X[2] + (as1 \div Limb)
        as3 == X[3] + (as2 \div Limb)
        as4 == X[4] + (as3 \div Limb)
    IN  <<as1 % Limb, as2 % Limb, as3 % Limb, as4 % Limb>>

\* X - Y for X >= Y.
BigSub(X, Y) ==
    LET sb1 == X[1] - Y[1]
        sb2 == X[2] - Y[2] - (IF sb1 < 0 THEN 1 ELSE 0)
        sb3 == X[3] - Y[3] - (IF sb2 < 0 THEN 1 ELSE 0)
        sb4 == X[4] - Y[4] - (IF sb3 < 0 THEN 1 ELSE 0)
    IN  <<(sb1 + Limb) % Limb, (sb2 + Limb) % Limb, (sb3 + Limb) % Limb,
          (sb4 + Limb) % Limb>>

BigLess(X, Y) == \E i \in 1..4 : X[i] < Y[i] /\ \A j \in (i + 1)..4 : X[j] = Y[j]

\* Bit j of X, bit 0 the lowest.
BigBit(X, j) == (X[(j \div 16) + 1] \div Pow2(j % 16)) % 2

\* The number of bits of X.
BigBitLen(X) ==
    IF X = BigZero THEN 0
    ELSE 1 + CHOOSE j \in 0..63 : BigBit(X, j) = 1 /\ \A i \in (j + 1)..63 : BigBit(X, i) = 0

\* X \div 2^k and X * 2^k, k in 0..63 (the bits shifted out are lost).
BigShiftRight(X, k) ==
    LET srq == k \div 16
        srp == Pow2(k % 16)
    IN  [i \in 1..4 |-> (LimbAt(X, i + srq) \div srp)
                          + (LimbAt(X, i + srq + 1) % srp) * (Limb \div srp)]

BigShiftLeft(X, k) ==
    LET slq == k \div 16
        slp == Pow2(k % 16)
    IN  [i \in 1..4 |-> ((LimbAt(X, i - slq) * slp) % Limb)
                          + ((LimbAt(X, i - slq - 1) * slp) \div Limb)]

\* A positive double is [m, e]: the value m * 2^e with 2^52 <= m < 2^53.
\* RoundBits(X, sticky, e) is the double nearest to X * 2^e, plus a
\* fraction of the last bit of X when sticky; ties go to the even m.
RoundBits(X, sticky, e) ==
    LET rbt == BigBitLen(X) - 53
    IN  IF rbt <= 0 THEN [m |-> BigShiftLeft(X, -rbt), e |-> e + rbt]
        ELSE LET rbtop == BigShiftRight(X, rbt)
                 rbrest == sticky \/ BigShiftLeft(BigShiftRight(X, rbt - 1), rbt - 1) # X
                 rbup == BigBit(X, rbt - 1) = 1 /\ (rbrest \/ BigBit(rbtop, 0) = 1)
                 rbm == IF rbup THEN BigAddSmall(rbtop, 1) ELSE rbtop
             IN  IF BigBitLen(rbm) = 54
                 THEN [m |-> BigShiftRight(rbm, 1), e |-> e + rbt + 1]
                 ELSE [m |-> rbm, e |-> e + rbt]

\* float(n) for a whole n >= 1.
DblOfInt(n) == RoundBits(BigOfInt(n), FALSE, 0)

\* Long division, a hexadecimal digit a step: the digit, and what is left
\* shifted for the next digit.
DivDigit(R, B) ==
    CHOOSE d \in 0..15 : ~BigLess(R, BigMulSmall(B, d)) /\ BigLess(R, BigMulSmall(B, d + 1))

DivRest(R, B) == BigMulSmall(BigSub(R, BigMulSmall(B, DivDigit(R, B))), 16)

RECURSIVE DivDigits(_, _, _, _)
DivDigits(R, B, Q, n) ==
    IF n = 0 THEN [q |-> Q, r |-> R]
    ELSE CHOOSE dvs \in
             {DivDigits(rest, B, digits, n - 1) :
                 rest \in {DivRest(R, B)},
                 digits \in {BigAddSmall(BigMulSmall(Q, 16), DivDigit(R, B))}} : TRUE

\* a / b: fifteen digits of the quotient of the two m, which has 56 or 57
\* bits, rounded to 53.
DblDiv(a, b) ==
    CHOOSE quotient \in
        {RoundBits(dvd.q, dvd.r # BigZero, a.e - b.e - 56) :
            dvd \in {DivDigits(am, bm, BigZero, 15) : am \in {a.m}, bm \in {b.m}}} : TRUE

\* a * k for a whole k from 1 to 2047: the exact product, rounded.
DblMulInt(a, k) == RoundBits(BigMulSmall(a.m, k), FALSE, a.e)

\* a > b
DblGreater(a, b) == a.e > b.e \/ (a.e = b.e /\ BigLess(b.m, a.m))

\* int(a) for a < 2^31.
DblInt(a) ==
    IF -a.e > 63 THEN 0
    ELSE LET dint == BigShiftRight(a.m, -a.e) IN dint[1] + dint[2] * Limb

\* ---------------------------------------------------------------------------
\* media_processor.py: resize_image_for_video
\* ---------------------------------------------------------------------------

\* x // 2
FloorHalf(x) == (x - Mod(x, 2)) \div 2

\* int(img_ratio * target_height), img_ratio = width / height
ScaledWidth(width, height, target_height) ==
    DblInt(DblMulInt(DblDiv(DblOfInt(width), DblOfInt(height)), target_height))

\* int(target_width / img_ratio)
ScaledHeight(width, height, target_width) ==
    DblInt(DblDiv(DblOfInt(target_width), DblDiv(DblOfInt(width), DblOfInt(height))))

\* Lines 216-240: the size the image is scaled to, the crop box, and the
\* size of the image that is saved (a crop has the size of its box).
resize_image_for_video(width, height, target_width, target_height) ==
    LET img_ratio == DblDiv(DblOfInt(width), DblOfInt(height))
        target_ratio == DblDiv(DblOfInt(target_width), DblOfInt(target_height))
        wider == DblGreater(img_ratio, target_ratio)
        new_width == IF wider THEN ScaledWidth(width, height, target_height)
                     ELSE target_width
        new_height == IF wider THEN target_height
                      ELSE ScaledHeight(width, height, target_width)
        left == FloorHalf(new_width - target_width)
        top == FloorHalf(new_height - target_height)
    IN  [new_width |-> new_width, new_height |-> new_height,
         left |-> left, top |-> top,
         right |-> left + target_width, bottom |-> top + target_height,
         saved |-> <<target_width, target_height>>]

\* The sides of the small images and targets of the model; the two video
\* formats of config.py; some larger images.
MaxImageSide == 9

VideoSizes == {<<1920, 1080>>, <<1080, 1920>>}

LargeSizes == {<<1024, 1024>>, <<1792, 1024>>, <<1024, 1792>>}

SmallSizes == (1..MaxImageSide) \X (1..MaxImageSide)

InitResize ==
    /\ PipelineIdle
    /\ HAS_GPU = FALSE
    /\ script = <<>>
    /\ cache = [f \in CacheFiles |-> AbsentFile]
    /\ RetryIdle
    /\ TimelineIdle
    /\ CuesIdle
    /\ RunsIdle
    /\ text = <<>> /\ out_dir = {} /\ reply = <<>> /\ upload = <<>>
    /\ image \in [source : SmallSizes \cup LargeSizes \cup VideoSizes,
                  target : SmallSizes \cup VideoSizes,
                  resized : {<<>>}]

CallUnchanged ==
    UNCHANGED <<tasks, pc, exc, request, HAS_GPU, script, retryVars, timelineVars, cueVars,
                runsVars, acquisitionVars, renderVars, stageVars, output>>

\* resize_image_for_video(cover_image_file, width, height)
ResizeImage ==
    /\ image.resized = <<>>
    /\ image' = [image EXCEPT !.resized =
                    resize_image_for_video(image.source[1], image.source[2],
                                           image.target[1], image.target[2])]
    /\ UNCHANGED <<text, out_dir, reply, upload>>
    /\ CallUnchanged

NextResize == ResizeImage

SpecResize == InitResize /\ [][NextResize]_vars

\* C25: the saved image is exactly the target's size, the scaled image
\* covers the target in both dimensions, and the crop box lies inside the
\* scaled image.
C25_ResizeCovers ==
    image.resized # <<>> =>
        /\ image.resized.saved = image.target
        /\ image.resized.new_width >= image.target[1]
        /\ image.resized.new_height >= image.target[2]
        /\ image.resized.left >= 0
        /\ image.resized.top >= 0
        /\ image.resized.right <= image.resized.new_width
        /\ image.resized.bottom <= image.resized.new_height

\* ---------------------------------------------------------------------------
\* download_audio: what is retried, and the waits (under SpecRetry)
\* ---------------------------------------------------------------------------

\* The attempts the call can make: the first max_retries of the injector.
Allowed == 1..retry_max

\* The first attempt that ends with an exception of no retried class;
\* 0 if there is none, or if a success comes before it.
FirstOther ==
    IF \E j \in Allowed : retry_faults[j] \notin TransientErrors \cup {"ok"}
                           /\ \A i \in 1..(j - 1) : retry_faults[i] \in TransientErrors
    THEN CHOOSE j \in Allowed : retry_faults[j] \notin TransientErrors \cup {"ok"}
                                /\ \A i \in 1..(j - 1) : retry_faults[i] \in TransientErrors
    ELSE 0

\* C26: download_audio retries only the transient classes; another
\* exception leaves the call from the attempt that raised it; every wait
\* is longer than the one before; there is a wait between two attempts
\* and none after the last attempt.
C26_RetriesAndWaits ==
    retry_out.called =>
        /\ \A j \in 1..(retry_out.result.attempts - 1) : retry_faults[j] \in TransientErrors
        /\ FirstOther # 0 =>
              /\ retry_out.result.raised
              /\ retry_out.result.attempts = FirstOther
              /\ retry_out.result.error = retry_faults[FirstOther]
        /\ Len(retry_out.result.sleeps) =
              IF retry_out.result.attempts = 0 THEN 0 ELSE retry_out.result.attempts - 1
        /\ \A j \in 1..(Len(retry_out.result.sleeps) - 1) :
              retry_out.result.sleeps[j] < retry_out.result.sleeps[j + 1]
        /\ \A j \in DOMAIN retry_out.result.sleeps : retry_out.result.sleeps[j] > 0

\* Three attempts failed with retried errors: two waits, none after the
\* third failure.
C26_Witness ==
    /\ retry_out.called
    /\ retry_max = 3
    /\ retry_out.result.raised
    /\ retry_out.result.attempts = 3
    /\ Len(retry_out.result.sleeps) = 2

\* A ValueError at the second attempt left the call at once.
C26_WitnessOther ==
    /\ retry_out.called
    /\ retry_max = 3
    /\ FirstOther = 2
    /\ retry_out.result.attempts = 2
    /\ retry_faults[3] \in TransientErrors

\* ---------------------------------------------------------------------------
\* api.py: the poll and the two download endpoints
\* ---------------------------------------------------------------------------

\* Lines 203-224: the poll response, or the 404 of an unknown task.
get_task_status(task_id) ==
    IF task_id \notin DOMAIN tasks THEN [status_code |-> 404, detail |-> "Task not found"]
    ELSE [status_code |-> 200,
          status |-> tasks[task_id].status,
          progress |-> tasks[task_id].progress,
          message |-> tasks[task_id].message,
          error |-> tasks[task_id].error,
          video_url |-> IF tasks[task_id].status = COMPLETED
                           /\ tasks[task_id].video_path # None
                        THEN "/api/v1/videos/{task_id}/download" ELSE None,
          subtitle_url |-> IF tasks[task_id].status = COMPLETED
                              /\ tasks[task_id].subtitle_path # None
                           THEN "/api/v1/videos/{task_id}/subtitle" ELSE None]

\* A bug: the file is served whatever the status.
ServeFileAnyStatus(task_id, path, exists, what) ==
    IF task_id \notin DOMAIN tasks THEN [status_code |-> 404, detail |-> "Task not found"]
    ELSE IF path = None \/ ~exists
    THEN [status_code |-> 404, detail |-> "file not found"]
    ELSE [status_code |-> 200, detail |-> what]

\* The checks the two download endpoints share: path is the task's field,
\* exists tells whether the file is in the output directory.
ServeFile(task_id, path, exists, what) ==
    IF task_id \notin DOMAIN tasks THEN [status_code |-> 404, detail |-> "Task not found"]
    ELSE IF tasks[task_id].status # COMPLETED
    THEN [status_code |-> 400, detail |-> "not ready"]
    ELSE IF path = None \/ ~exists
    THEN [status_code |-> 404, detail |-> "file not found"]
    ELSE [status_code |-> 200, detail |-> what]

\* Lines 240-260 and 276-296.
download_video(task_id) ==
    ServeFile(task_id, IF task_id \in DOMAIN tasks THEN tasks[task_id].video_path ELSE None,
               output.video, "video/mp4")

download_subtitle(task_id) ==
    ServeFile(task_id, IF task_id \in DOMAIN tasks THEN tasks[task_id].subtitle_path ELSE None,
               output.srt, "text/plain")

\* The ids a client may ask for: the task's, and one no task has.
AskedIds == {TaskId, "t0"}

\* C27: the download endpoints return a file only for a COMPLETED task,
\* answer 404 for an unknown id and 400 for a task that is PENDING,
\* PROCESSING or FAILED; the poll response carries video_url and
\* subtitle_url only when the status is COMPLETED.
C27_FilesOnlyWhenCompleted ==
    \A id \in AskedIds :
        /\ id \notin DOMAIN tasks =>
              /\ download_video(id).status_code = 404
              /\ download_subtitle(id).status_code = 404
              /\ get_task_status(id).status_code = 404
        /\ id \in DOMAIN tasks =>
              /\ tasks[id].status \in {PENDING, PROCESSING, FAILED} =>
                    /\ download_video(id).status_code = 400
                    /\ download_subtitle(id).status_code = 400
              /\ download_video(id).status_code = 200 => tasks[id].status = COMPLETED
              /\ download_subtitle(id).status_code = 200 => tasks[id].status = COMPLETED
              /\ tasks[id].status # COMPLETED =>
                    /\ get_task_status(id).video_url = None
                    /\ get_task_status(id).subtitle_url = None

\* The output files are written and the task knows their paths, but line
\* 81 has not run: both endpoints answer 400.
C27_Witness ==
    /\ pc = "L81"
    /\ output.video /\ output.srt
    /\ Task.video_path # None /\ Task.subtitle_path # None
    /\ Task.status = PROCESSING
    /\ download_video(TaskId).status_code = 400
    /\ download_subtitle(TaskId).status_code = 400

\* A COMPLETED task whose files are served.
C27_WitnessServed ==
    /\ HasTask
    /\ Task.status = COMPLETED
    /\ download_video(TaskId).status_code = 200
    /\ download_subtitle(TaskId).status_code = 200
    /\ get_task_status(TaskId).video_url # None

\* ---------------------------------------------------------------------------
\* media_processor.py: remove_bracketed_text (SpecText)
\* ---------------------------------------------------------------------------
\* A string is the sequence of its characters.

MaxTextLen == 4

TextChars == {"[", "]", "a", " ", "\n"}

\* What \s matches, among TextChars.
Whitespace == {" ", "\n"}

\* Where the match of \[.*?\] that starts at i ends, 0 when there is none:
\* the nearest "]" after a "[", with no line break between them, because
\* "." does not match one.
MatchEnd(s, i) ==
    IF s[i] # "[" THEN 0
    ELSE IF \E j \in (i + 1)..Len(s) :
                s[j] = "]" /\ \A k \in (i + 1)..(j - 1) : s[k] # "\n"
    THEN CHOOSE j \in (i + 1)..Len(s) :
             /\ s[j] = "]"
             /\ \A k \in (i + 1)..(j - 1) : s[k] \notin {"\n", "]"}
    ELSE 0

\* Line 54: re.sub(r'\[.*?\]', '', text), from position i on: the leftmost
\* match is dropped and the scan resumes behind it.
RECURSIVE SubBrackets(_, _)
SubBrackets(s, i) ==
    IF i > Len(s) THEN <<>>
    ELSE IF MatchEnd(s, i) # 0 THEN SubBrackets(s, MatchEnd(s, i) + 1)
    ELSE <<s[i]>> \o SubBrackets(s, i + 1)

\* Line 56: re.sub(r'\s+', ' ', cleaned): every run of whitespace becomes
\* one space.
RECURSIVE SubSpaces(_, _)
SubSpaces(s, i) ==
    IF i > Len(s) THEN <<>>
    ELSE IF s[i] \notin Whitespace THEN <<s[i]>> \o SubSpaces(s, i + 1)
    ELSE IF i > 1 /\ s[i - 1] \in Whitespace THEN SubSpaces(s, i + 1)
    ELSE <<" ">> \o SubSpaces(s, i + 1)

\* str.strip()
strip(s) ==
    IF \A i \in 1..Len(s) : s[i] \in Whitespace THEN <<>>
    ELSE SubSeq(s,
                CHOOSE i \in 1..Len(s) :
                    s[i] \notin Whitespace /\ \A k \in 1..(i - 1) : s[k] \in Whitespace,
                CHOOSE j \in 1..Len(s) :
                    s[j] \notin Whitespace /\ \A k \in (j + 1)..Len(s) : s[k] \in Whitespace)

remove_bracketed_text(s) == strip(SubSpaces(SubBrackets(s, 1), 1))

\* text.input is the string given, text.outputs the results of applying
\* the function to it and then to its own result.
InitText ==
    /\ PipelineIdle
    /\ HAS_GPU = FALSE
    /\ script = <<>>
    /\ cache = [f \in CacheFiles |-> AbsentFile]
    /\ RetryIdle
    /\ TimelineIdle
    /\ CuesIdle
    /\ RunsIdle
    /\ image = <<>> /\ out_dir = {} /\ reply = <<>> /\ upload = <<>>
    /\ text \in [input : SeqsUpTo(TextChars, MaxTextLen), outputs : {<<>>}]

CleanText ==
    /\ text # <<>>
    /\ Len(text.outputs) < 2
    /\ text' = [text EXCEPT !.outputs =
                   Append(@, remove_bracketed_text(IF @ = <<>> THEN text.input ELSE @[Len(@)]))]
    /\ UNCHANGED <<image, out_dir, reply, upload>>
    /\ CallUnchanged

NextText == CleanText

SpecText == InitText /\ [][NextText]_vars

\* A "[" with a "]" somewhere behind it.
HasBracketPair(s) == \E i, j \in 1..Len(s) : i < j /\ s[i] = "[" /\ s[j] = "]"

\* No run of two or more whitespace characters, none at either end.
Tidy(s) ==
    /\ \A i \in 1..(Len(s) - 1) : ~(s[i] \in Whitespace /\ s[i + 1] \in Whitespace)
    /\ s # <<>> => (s[1] \notin Whitespace /\ s[Len(s)] \notin Whitespace)

TextIsTidy == \A n \in 1..Len(text.outputs) : Tidy(text.outputs[n])

\* C28: the result of remove_bracketed_text has no "[" followed later by
\* a "]", no run of two or more whitespace characters and no whitespace at
\* either end, and applying the function to its result changes nothing.
C28_BracketsRemoved ==
    /\ \A n \in 1..Len(text.outputs) :
          ~HasBracketPair(text.outputs[n]) /\ Tidy(text.outputs[n])
    /\ Len(text.outputs) = 2 => text.outputs[2] = text.outputs[1]

\* A "[" and a "]" on two lines come out as "[ ]", and the second
\* application removes them.
C28_PairAcrossLines ==
    /\ text # <<>>
    /\ text.input = <<"[", "\n", "]">>
    /\ text.outputs = << <<"[", " ", "]">>, <<>> >>

\* ---------------------------------------------------------------------------
\* api.py: delete_file (SpecDelete)
\* ---------------------------------------------------------------------------
\* A file name is the sequence of its characters, a path the sequence of
\* its components below BASE_DIR.

\* config.py line 79: OUTPUT_DIR = BASE_DIR / "output"
OUTPUT_DIR == << <<"o", "u", "t", "p", "u", "t">> >>

Mp4 == <<".", "m", "p", "4">>
Srt == <<".", "s", "r", "t">>

\* The files the output directory may hold: a video with its subtitles,
\* subtitles without a video, and the subtitles of a video that
\* main.py --output output.mp4 wrote (main.py lines 398-421).
DirFiles ==
    {<<"a">> \o Mp4, <<"a">> \o Srt, <<"b">> \o Srt, OUTPUT_DIR[1] \o Srt}

\* The names a client may send.
Filenames ==
    DirFiles \cup {<<"b">> \o Mp4, <<"a">>, <<".">>, <<".", ".">>,
                   <<".", ".", "/", "a">>, <<"a", "/", "b">>, <<"a", "\\", "b">>}

\* sub in s, for strings
HasSubstring(s, sub) ==
    \E i \in 1..(Len(s) - Len(sub) + 1) : SubSeq(s, i, i + Len(sub) - 1) = sub

\* pathlib's "/": a component "." or "" is dropped.
JoinPath(dir, name) == IF name \in {<<".">>, <<>>} THEN dir ELSE Append(dir, name)

\* PurePath.name
PathName(path) == IF path = <<>> THEN <<>> ELSE path[Len(path)]

\* The stem of a name: what precedes its last ".", unless that "." is
\* the first or the last character.
NameStem(name) ==
    IF \E d \in 2..(Len(name) - 1) : name[d] = "."
    THEN SubSeq(name, 1, (CHOOSE d \in 2..(Len(name) - 1) :
                             name[d] = "." /\ \A k \in (d + 1)..(Len(name) - 1) : name[k] # ".") - 1)
    ELSE name

\* Path.exists(), for a path in or at OUTPUT_DIR (config.py line 83
\* creates the directory).
PathExists(dir, path) == path = OUTPUT_DIR \/ (Len(path) = 2 /\ path[2] \in dir)

\* os.remove raises on a directory.
CanRemove(path) == path # OUTPUT_DIR

\* Line 375
InvalidFilename(filename) ==
    HasSubstring(filename, <<".", ".">>) \/ HasSubstring(filename, <<"/">>)
        \/ HasSubstring(filename, <<"\\">>)

\* Lines 365-416. The reply keeps the name that was sent.
DeleteNamed(filename) ==
    LET video_path == JoinPath(OUTPUT_DIR, filename)
        inside == SubSeq(video_path, 1, Len(OUTPUT_DIR)) = OUTPUT_DIR
        video_found == PathExists(out_dir, video_path)
        video_gone == video_found /\ CanRemove(video_path)
        after_video == IF video_gone THEN out_dir \ {PathName(video_path)} ELSE out_dir
        subtitle_filename == NameStem(PathName(video_path)) \o Srt
        subtitle_path == JoinPath(OUTPUT_DIR, subtitle_filename)
        subtitle_gone == PathExists(after_video, subtitle_path)
        deleted_files == (IF video_gone THEN <<filename>> ELSE <<>>)
                            \o (IF subtitle_gone THEN <<subtitle_filename>> ELSE <<>>)
        errors == IF video_found /\ ~video_gone THEN <<"Failed to delete video">> ELSE <<>>
    IN  IF InvalidFilename(filename)
        THEN /\ reply' = [filename |-> filename, status_code |-> 400,
                          message |-> "Invalid filename", deleted |-> <<>>, errors |-> <<>>]
             /\ UNCHANGED out_dir
        ELSE IF ~inside
        THEN /\ reply' = [filename |-> filename, status_code |-> 400,
                          message |-> "Invalid file path", deleted |-> <<>>, errors |-> <<>>]
             /\ UNCHANGED out_dir
        ELSE /\ out_dir' = IF subtitle_gone THEN after_video \ {subtitle_filename}
                           ELSE after_video
             /\ reply' = [filename |-> filename, status_code |-> 200,
                          message |-> IF deleted_files = <<>> /\ errors = <<>>
                                      THEN "File not found"
                                      ELSE "Cleanup operation completed",
                          deleted |-> deleted_files, errors |-> errors]

InitDelete ==
    /\ PipelineIdle
    /\ HAS_GPU = FALSE
    /\ script = <<>>
    /\ cache = [f \in CacheFiles |-> AbsentFile]
    /\ RetryIdle
    /\ TimelineIdle
    /\ CuesIdle
    /\ RunsIdle
    /\ image = <<>> /\ text = <<>> /\ reply = <<>> /\ upload = <<>>
    /\ out_dir \in SUBSET DirFiles

DeleteFile ==
    /\ \E filename \in Filenames : DeleteNamed(filename)
    /\ UNCHANGED <<image, text, upload>>
    /\ CallUnchanged

NextDelete == DeleteFile

SpecDelete == InitDelete /\ [][NextDelete]_vars

\* C29: a file name containing "..", "/" or "\" is answered 400 and
\* nothing is deleted; for any other name the call removes the file of
\* that name and the .srt of the same stem when they exist, and no other
\* file.
C29_DeleteIsConfined ==
    [][ /\ InvalidFilename(reply'.filename)
            => (reply'.status_code = 400 /\ out_dir' = out_dir)
        /\ ~InvalidFilename(reply'.filename)
            => out_dir' = out_dir \ {reply'.filename, NameStem(reply'.filename) \o Srt}
      ]_<<out_dir, reply>>

\* What holds of C29: the refused names are exactly those with "..", "/"
\* or "\", a refused call deletes nothing, and a call with any accepted
\* name but "." removes that file and its same-stem .srt only.
NamedDeleteIsConfined ==
    [][ /\ reply'.status_code = 400 <=> InvalidFilename(reply'.filename)
        /\ reply'.status_code = 400 => out_dir' = out_dir
        /\ (reply'.status_code = 200 /\ reply'.filename # <<".">>)
            => out_dir' = out_dir \ {reply'.filename, NameStem(reply'.filename) \o Srt}
      ]_<<out_dir, reply>>

\* DELETE /api/v1/files/. has removed output.srt.
C29_DotRemovesOutputSrt ==
    /\ reply # <<>>
    /\ reply.filename = <<".">>
    /\ reply.deleted = <<OUTPUT_DIR[1] \o Srt>>
    /\ OUTPUT_DIR[1] \o Srt \notin out_dir

\* ---------------------------------------------------------------------------
\* Subtitles burned per segment
\* ---------------------------------------------------------------------------

\* C30: when subtitle burn is requested, every rendered segment has its
\* batch's cue file burned in, and the CPU invocation made after a failed
\* GPU invocation has the same subtitle input as the GPU invocation.
C30_SegmentsBurned ==
    request.burn_subtitles =>
        \A b \in DOMAIN segments :
            /\ segments[b].exists => segments[b].subs
            /\ \A k \in DOMAIN invocations[b] :
                  invocations[b][k].subs = invocations[b][1].subs

\* With burn requested, the segment left by the fallback has no
\* subtitles, though the GPU invocation before it had the filter.
C30_FallbackWithoutSubtitles ==
    /\ request.burn_subtitles
    /\ \E b \in DOMAIN segments :
          /\ Len(invocations[b]) = 2
          /\ invocations[b][1].path = "gpu" /\ invocations[b][1].subs
          /\ invocations[b][2].path = "cpu_fallback" /\ ~invocations[b][2].subs
          /\ segments[b].exists /\ ~segments[b].subs

\* What holds of C30: a segment rendered without the fallback has the
\* cue file burned in exactly when burn was requested.
DirectSegmentsBurned ==
    \A b \in DOMAIN segments :
        (segments[b].exists /\ Len(invocations[b]) = 1) =>
            (segments[b].subs <=> request.burn_subtitles)

\* ---------------------------------------------------------------------------
\* What a poll can read of a task
\* ---------------------------------------------------------------------------
\* process_video_task is a plain function run by a worker thread, and
\* get_task_status reads the registry from the event loop: a poll can
\* fall between any two writes of the task.

\* C34: in every reachable state of a task, status = FAILED implies that
\* error is set and progress is 0.
C34_FailedHasErrorAndZero ==
    (HasTask /\ Task.status = FAILED) => (Task.error # None /\ Task.progress = 0)

\* The task has ended FAILED at line 103: no error, progress 100.
C34_FailedAtLine103 ==
    /\ pc = "done"
    /\ Task.status = FAILED
    /\ Task.error = None
    /\ Task.progress = 100

\* What holds of C34: a task that ended through the except handler has
\* its error and progress 0.
HandledFailureHasError ==
    (pc = "done" /\ exc # None) =>
        (Task.status = FAILED /\ Task.error = exc /\ Task.progress = 0)

\* C35: no poll reads a task with status COMPLETED whose progress is
\* below 100 or whose video_path is unset.
C35_CompletedIsWhole ==
    \A id \in AskedIds :
        (get_task_status(id).status_code = 200 /\ get_task_status(id).status = COMPLETED)
            => (get_task_status(id).progress = 100 /\ tasks[id].video_path # None)

\* Between lines 81 and 82 the poll answers COMPLETED with progress 90.
C35_CompletedAt90 ==
    /\ pc = "L82"
    /\ get_task_status(TaskId).status = COMPLETED
    /\ get_task_status(TaskId).progress = 90
    /\ get_task_status(TaskId).video_url # None

\* What holds of C35: a COMPLETED task has its video_path.
CompletedHasVideoPath ==
    (HasTask /\ Task.status = COMPLETED) => Task.video_path # None

\* C36: while a task is PROCESSING, and at the write that makes it
\* COMPLETED, no write lowers its progress.
C36_ProgressNeverDecreases ==
    [][(HasTask /\ Task.status = PROCESSING /\ Task'.status \in {PROCESSING, COMPLETED})
          => Task'.progress >= Task.progress]_vars

\* The first callback of create_podcast_video has written 5 over the 20
\* of line 54.
C36_FiveAfterTwenty ==
    /\ pc = "c94"
    /\ Task.status = PROCESSING
    /\ Task.progress = 5

\* Line 71 has written 90 over the 100 of the last callback.
C36_NinetyAfterHundred ==
    /\ pc = "L74"
    /\ Task.status = PROCESSING
    /\ Task.progress = 90

\* ---------------------------------------------------------------------------
\* A task of a pool raises
\* ---------------------------------------------------------------------------

\* The futures of a pool that have not run to their end.
Unfinished(state) == {i \in DOMAIN state : state[i] \notin {"done", "collected"}}

\* C37: when a download task or a batch task raises, the exception leaves
\* create_podcast_video only after every task submitted to that pool has
\* run to its end; none is left queued or running, none is cancelled.
C37_PoolDrainsBeforeRaise ==
    [][ /\ (pc \in {"c175", "c175x"} /\ pc' = "L110") => Unfinished(dl_state') = {}
        /\ (pc \in {"c382", "c382x"} /\ pc' = "L110") => Unfinished(rd_state') = {}
        /\ pc = "c175x" => (pc' \in {"c175x", "L110"} /\ Unfinished(dl_state') \subseteq Unfinished(dl_state))
        /\ pc = "c382x" => (pc' \in {"c382x", "L110"} /\ Unfinished(rd_state') \subseteq Unfinished(rd_state))
      ]_vars

\* The exception of a download task was taken from its future while
\* another task was still queued.
DownloadRaisedWithQueue == pc = "c175x" /\ Queued(dl_state) # {}

\* The same for a batch task.
RenderRaisedWithQueue == pc = "c382x" /\ Queued(rd_state) # {}

\* The exception of a download task has left the with block: a task that
\* was never collected has run to its end.
C37_Witness ==
    /\ pc = "L110"
    /\ dl_state # <<>> /\ rd_state = <<>>
    /\ \E i \in DOMAIN dl_state : dl_ret[i].raised /\ dl_state[i] = "collected"
    /\ \E i \in DOMAIN dl_state : dl_state[i] = "done" /\ ~dl_ret[i].raised

\* The same for a batch task.
C37_WitnessRender ==
    /\ pc = "L110"
    /\ rd_state # <<>>
    /\ \E b \in DOMAIN rd_state : rd_ret[b].raised /\ rd_state[b] = "collected"
    /\ \E b \in DOMAIN rd_state : rd_state[b] = "done" /\ ~rd_ret[b].raised

\* ---------------------------------------------------------------------------
\* The cues of a run against its audio (SpecSync)
\* ---------------------------------------------------------------------------
\* A run after acquisition: the batch tasks are built and merged as in
\* SpecTimeline, and the full-run cue file is written from the same
\* lines and durations (main.py, lines 312-313).

MaxSyncLines == 3
MaxSyncBatch == 2

SyncLines ==
    UNION {{[audio_path |-> r, delay_duration_ms |-> d, file |-> f] :
                f \in {AudioFile(r), CorruptFile}} :
           r \in {RefAX, RefZ}, d \in Delays}

InitSync ==
    /\ PipelineIdle
    /\ HAS_GPU = FALSE
    /\ script = <<>>
    /\ cache = [f \in CacheFiles |-> AbsentFile]
    /\ RetryIdle
    /\ CuesIdle
    /\ RunsIdle
    /\ CallsIdle
    /\ tl_lines \in UNION {[1..n -> SyncLines] : n \in 1..MaxSyncLines}
    /\ tl_size \in 1..MaxSyncBatch
    /\ tl_tasks = <<>>
    /\ tl_merged = <<>>

\* The durations create_subtitle_file is given: seconds, as floats.
Seconds(durations) == [k \in DOMAIN durations |-> DivBy1000(durations[k])]

\* main.py, lines 312-313: create_subtitle_file(lines, audio_durations,
\* subtitle_file)
WriteRunCues ==
    /\ cue_file = <<>>
    /\ cue_file' = create_subtitle_file(TlLines, Seconds(TlDurations))
    /\ UNCHANGED <<tasks, pc, exc, request, HAS_GPU, script, retryVars, timelineVars,
                   runsVars, callVars, cue_lines, acquisitionVars, renderVars, stageVars, output>>

NextSync == BuildBatches \/ (\E b \in DOMAIN tl_merged : MergeBatch(b)) \/ WriteRunCues

SpecSync == InitSync /\ [][NextSync]_vars

\* main.py, lines 334-338: the cue file of batch b,
\* create_subtitle_file(batch_lines, batch_durations, sub_file).
BatchCues(b) ==
    create_subtitle_file(tl_tasks[b].batch_lines, Seconds(tl_tasks[b].batch_durations))

\* The batch of line i and the line's place in it.
BatchOf(i) == ((i - 1) \div tl_size) + 1
PlaceOf(i) == ((i - 1) % tl_size) + 1

\* The length of the merged tracks of the batches before batch b.
RECURSIVE TracksBefore(_)
TracksBefore(b) ==
    IF b <= 1 THEN 0
    ELSE TracksBefore(b - 1) + TrackLength(tl_merged[b - 1].result.pieces)

\* Where the audio of the k-th line of a merged track begins: the
\* length of what the earlier lines put into the track.
PieceStart(pieces, k) ==
    TrackLength(SelectSeq(pieces, LAMBDA x : x.line < k))

\* The offset of line i's audio in the concatenation of the merged tracks.
AudioOffset(i) ==
    TracksBefore(BatchOf(i)) + PieceStart(tl_merged[BatchOf(i)].result.pieces, PlaceOf(i))

\* The cue file is written and every batch is merged.
RunMerged ==
    /\ cue_file # <<>>
    /\ tl_merged # <<>>
    /\ \A b \in DOMAIN tl_merged : Merged(b)

\* C31: the start of cue i in the full-run cue file is the offset at
\* which line i's audio begins in the concatenation of the batches'
\* merged audio, whatever the batch size, and it is the length of the
\* earlier batches' merged audio plus the start of line i's cue in its
\* batch's own cue file.
C31_CuesFollowAudio ==
    RunMerged =>
        \A i \in DOMAIN cue_file :
            /\ StampMs(cue_file[i].start) = AudioOffset(i)
            /\ StampMs(cue_file[i].start)
                  = TracksBefore(BatchOf(i)) + StampMs(BatchCues(BatchOf(i))[PlaceOf(i)].start)

\* Every file decodes and no delay is negative.
CleanRun ==
    \A k \in DOMAIN tl_lines :
        ~DecodeFails(tl_lines[k].file) /\ tl_lines[k].delay_duration_ms >= 0

\* Two lines whose files decode, no delay: the first lasts 2.3 s, and
\* the second cue is stamped 2,299 while its audio begins at 2300 ms.
C31_OneMillisecondEarly ==
    /\ RunMerged
    /\ CleanRun
    /\ Len(tl_lines) = 2
    /\ tl_lines[1].audio_path = RefZ /\ tl_lines[1].delay_duration_ms = 0
    /\ StampMs(cue_file[2].start) = 2299
    /\ AudioOffset(2) = 2300

\* What holds of C31: when every file decodes and no delay is negative,
\* a cue starts at its line's audio or 1 ms before it.
CleanCuesWithinOneMs ==
    (RunMerged /\ CleanRun) =>
        \A i \in DOMAIN cue_file :
            AudioOffset(i) - StampMs(cue_file[i].start) \in {0, 1}

\* ---------------------------------------------------------------------------
\* Whose audio a line's file holds
\* ---------------------------------------------------------------------------

\* Lines 180-181 have run: audio_paths is filled, nothing was rendered yet.
AfterAcquisition == pc = "c185"

\* C32: after acquisition the file recorded for line i holds the audio
\* of line i's own reference, and two lines whose references differ do
\* not share a cache file.
C32_OwnAudioPerLine ==
    AfterAcquisition =>
        /\ \A i \in DOMAIN lines : cache[audio_paths[i]] = AudioFile(lines[i].audio_path)
        /\ \A i, j \in DOMAIN lines :
              lines[i].audio_path # lines[j].audio_path => audio_paths[i] # audio_paths[j]

\* The references a/x and b/x of two lines of a run, no file in temp/audio
\* before: both lines have the file x, which holds the audio of one.
C32_SameBasenameShared ==
    /\ AfterAcquisition
    /\ Len(lines) = 2
    /\ lines[1].audio_path = RefAX /\ lines[2].audio_path = RefBX
    /\ audio_paths[1] = audio_paths[2]
    /\ cache[audio_paths[2]] = AudioFile(RefAX)
    /\ dl_log[1] = <<"download_ok">>
    /\ dl_log[2] = <<"cached">>

\* A line of reference a/x found the file x an earlier run left for b/x.
C32_EarlierRunsAudio ==
    /\ AfterAcquisition
    /\ Len(lines) = 1
    /\ lines[1].audio_path = RefAX
    /\ dl_log[1] = <<"cached">>
    /\ cache[audio_paths[1]] = AudioFile(RefBX)

\* What holds of C32: a line that downloaded its audio, and whose cache
\* file name no line of another reference has, holds its own audio.
OwnAudioWhenNameIsOwn ==
    AfterAcquisition =>
        \A i \in DOMAIN lines :
            (/\ Contains(dl_log[i], "download_ok")
             /\ \A j \in DOMAIN lines :
                   audio_paths[j] = audio_paths[i] => lines[j].audio_path = lines[i].audio_path)
                => cache[audio_paths[i]] = AudioFile(lines[i].audio_path)

\* ---------------------------------------------------------------------------
\* upload_service.py: upload_file_with_retry and upload_and_cleanup
\* (SpecUpload)
\* ---------------------------------------------------------------------------

\* max_retries ranges over 0 .. MaxUploadRetries.
MaxUploadRetries == 3

\* What one turn of the loop can end with: a 2xx response with a JSON
\* body, with no body, with a body that is not JSON; an exception of
\* class requests.exceptions.RequestException (raise_for_status included);
\* an exception of another class (open() failing, say).
Accepted == {"json", "empty", "not_json"}
UploadOutcomes == Accepted \cup {"RequestException", "OSError"}

\* Line 73, response.json() on a body that is not JSON: requests from
\* 2.27 on raises requests.exceptions.JSONDecodeError, a
\* RequestException; earlier versions raise a ValueError that is not one.
\* newer tells which requests is installed.
ClassRaised(outcome, newer) ==
    IF outcome = "not_json"
    THEN (IF newer THEN "RequestException" ELSE "ValueError")
    ELSE outcome

\* Lines 54-89, from turn attempt on; sleeps counts the waits so far.
RECURSIVE UploadLoop(_, _, _, _, _)
UploadLoop(outcomes, max_retries, newer, attempt, sleeps) ==
    IF attempt > max_retries
    THEN [success |-> FALSE, data |-> None, attempts |-> attempt - 1, sleeps |-> sleeps]
    ELSE IF outcomes[attempt] = "json"
    THEN [success |-> TRUE, data |-> "response", attempts |-> attempt, sleeps |-> sleeps]
    ELSE IF outcomes[attempt] = "empty"
    THEN [success |-> TRUE, data |-> None, attempts |-> attempt, sleeps |-> sleeps]
    ELSE IF ClassRaised(outcomes[attempt], newer) = "RequestException"
    THEN IF attempt < max_retries
         THEN UploadLoop(outcomes, max_retries, newer, attempt + 1, sleeps + 1)
         ELSE [success |-> FALSE, data |-> None, attempts |-> attempt, sleeps |-> sleeps]
    ELSE [success |-> FALSE, data |-> None, attempts |-> attempt, sleeps |-> sleeps]

\* upload_file_with_retry(file_path, max_retries)
upload_file_with_retry(exists, outcomes, max_retries, newer) ==
    IF ~exists
    THEN [success |-> FALSE, data |-> None, attempts |-> 0, sleeps |-> 0]
    ELSE UploadLoop(outcomes, max_retries, newer, 1, 0)

\* cleanup_files(video_path, subtitle_path): a path that is None is
\* skipped, a file that exists is unlinked.
cleanup_files(files, paths) == files \ paths

InitUpload ==
    /\ PipelineIdle
    /\ HAS_GPU = FALSE
    /\ script = <<>>
    /\ cache = [f \in CacheFiles |-> AbsentFile]
    /\ RetryIdle
    /\ TimelineIdle
    /\ CuesIdle
    /\ RunsIdle
    /\ image = <<>> /\ text = <<>> /\ out_dir = {} /\ reply = <<>>
    /\ upload \in [files : SUBSET {"video", "subtitle"},
                    subtitle_path : {None, "subtitle"},
                    max_retries : 0..MaxUploadRetries,
                    outcomes : [1..MaxUploadRetries -> UploadOutcomes],
                    newer : BOOLEAN,
                    called : {FALSE},
                    result : {NoUpload},
                    left : {{}}]

\* upload_and_cleanup(video_path, subtitle_path, max_retries)
upload_and_cleanup ==
    /\ upload # <<>>
    /\ ~upload.called
    /\ LET r == upload_file_with_retry("video" \in upload.files, upload.outcomes,
                                       upload.max_retries, upload.newer)
       IN  upload' = [upload EXCEPT
                        !.called = TRUE,
                        !.result = r,
                        !.left = IF r.success
                                 THEN cleanup_files(upload.files,
                                                    {"video", upload.subtitle_path})
                                 ELSE upload.files]
    /\ UNCHANGED <<image, text, out_dir, reply>>
    /\ CallUnchanged

NextUpload == upload_and_cleanup

SpecUpload == InitUpload /\ [][NextUpload]_vars

\* The turns a call may take, and among them those that got a 2xx
\* response and those that raised an exception that is not retried.
Turns == 1..upload.max_retries
AcceptedTurns == {k \in Turns : upload.outcomes[k] \in Accepted}
OtherTurns == {k \in Turns : upload.outcomes[k] = "OSError"}

\* The turn at which the loop is to stop: the first success or the first
\* exception that is not a request exception, else the last turn.
LastTurn == Min(AcceptedTurns \cup OtherTurns \cup {upload.max_retries})

\* The upload succeeded: the file was there and the loop stopped at an
\* accepted attempt.
Uploaded ==
    /\ "video" \in upload.files
    /\ upload.max_retries > 0
    /\ upload.outcomes[LastTurn] \in Accepted

\* C38: upload_file_with_retry makes at most max_retries attempts, stops
\* at the first success and at the first exception that is not a request
\* exception, and returns (False, None) when the file is missing or
\* every attempt failed; upload_and_cleanup deletes the video and the
\* subtitle file if and only if the upload succeeded.
C38_UploadAndCleanup ==
    (upload # <<>> /\ upload.called) =>
        /\ upload.result.attempts <= upload.max_retries
        /\ upload.result.attempts = IF "video" \in upload.files THEN LastTurn ELSE 0
        /\ ~Uploaded => (~upload.result.success /\ upload.result.data = None)
        /\ upload.left = IF Uploaded
                          THEN upload.files \ {"video", upload.subtitle_path}
                          ELSE upload.files

\* The first attempt got a 2xx response whose body is not JSON, and the
\* file was posted again.
C38_PostedAgain ==
    /\ upload # <<>> /\ upload.called
    /\ upload.outcomes[1] = "not_json"
    /\ upload.result.attempts > 1

\* The only attempt got a 2xx response whose body is not JSON: the call
\* answers (False, None) and the files are kept.
C38_AcceptedButKept ==
    /\ upload # <<>> /\ upload.called
    /\ upload.max_retries = 1
    /\ upload.outcomes[1] = "not_json"
    /\ ~upload.result.success
    /\ "video" \in upload.left

\* What holds of C38: the whole claim, as long as no 2xx response has a
\* body that is not JSON.
UploadWithJsonBodies ==
    (upload # <<>> /\ upload.called
        /\ \A k \in Turns : upload.outcomes[k] # "not_json")
      => C38_UploadAndCleanup

\* ---------------------------------------------------------------------------
\* The lines a run processes
\* ---------------------------------------------------------------------------

\* The labels of process_video_task and create_podcast_video up to the
\* fetch of the lines.
BeforeFetch == {"idle", "L40", "L41", "L54", "c93", "c94"}

\* The provider returned no line, or no line with an audio reference.
NothingToProcess == \A k \in DOMAIN script : script[k] = NoAudio

\* C17: if no fetched line has an audio reference (or no line is
\* fetched), create_podcast_video raises before it makes a scratch
\* directory, starts a download, requests an image or writes a file.
C17_EmptyInputRaisesFirst ==
    NothingToProcess =>
        /\ pc \in BeforeFetch \cup {"L110", "L111", "L112", "done"}
        /\ pc \notin BeforeFetch => exc # None
        /\ ~dirs_created
        /\ dl_state = <<>> /\ dl_log = <<>>
        /\ cover = "none"
        /\ ~subtitle_file
        /\ invocations = <<>> /\ segments = <<>> /\ concat_list = <<>>
        /\ ~output.video /\ ~output.srt

\* A run whose fetched lines all lack an audio reference ended FAILED.
C17_Witness ==
    /\ pc = "done"
    /\ script # <<>>
    /\ NothingToProcess
    /\ exc = "No lines with audio found"
    /\ Task.status = FAILED
    /\ ~dirs_created

\* The filter and the limit on their own (SpecLines): a run up to line
\* 121, over longer scripts and larger limits.
MaxLinesFetched == 3

MaxLineLimit == 2

LineRequests == [max_lines : 0..MaxLineLimit, burn_subtitles : {FALSE},
                 skip_image_generation : {TRUE}]

InitLines ==
    /\ PipelineIdle
    /\ HAS_GPU = FALSE
    /\ script \in SeqsUpTo(AudioRefs, MaxLinesFetched)
    /\ cache = [f \in CacheFiles |-> AbsentFile]
    /\ RetryIdle
    /\ TimelineIdle
    /\ CuesIdle
    /\ RunsIdle
    /\ CallsIdle

NextLines ==
    \/ create_video_from(LineRequests)
    \/ SetProcessing
    \/ SetProgress10
    \/ SetProgress20
    \/ UpdateProgress1
    \/ FetchLines
    \/ UpdateProgress2

SpecLines == InitLines /\ [][NextLines]_vars

\* The positions of the provider's lines that have an audio reference.
Kept == {k \in DOMAIN script : script[k] # NoAudio}

\* How many lines the run is to process.
KeptCount ==
    IF request.max_lines > 0 /\ request.max_lines < Cardinality(Kept)
    THEN request.max_lines
    ELSE Cardinality(Kept)

\* C18: the lines processed are the fetched lines that have a non-empty
\* audio reference, in their original order, cut to the first max_lines
\* of them when max_lines > 0, all of them when max_lines = 0.
C18_LinesProcessed ==
    dirs_created =>
        /\ Len(lines) = KeptCount
        /\ \A j \in DOMAIN lines :
              /\ lines[j].id \in Kept
              /\ lines[j].audio_path = script[lines[j].id]
              /\ Cardinality({k \in Kept : k < lines[j].id}) = j - 1

\* A run that dropped a line without audio and cut the rest to max_lines,
\* the dropped line lying before the last line kept.
C18_Witness ==
    /\ dirs_created
    /\ request.max_lines > 0
    /\ Cardinality(Kept) > request.max_lines
    /\ Cardinality(Kept) < Len(script)
    /\ Len(lines) = request.max_lines
    /\ \E k \in DOMAIN script : script[k] = NoAudio /\ k < lines[Len(lines)].id

\* A run with max_lines = 0 that dropped a line and kept all the others.
C18_WitnessAll ==
    /\ dirs_created
    /\ request.max_lines = 0
    /\ Cardinality(Kept) < Len(script)
    /\ Len(lines) = Cardinality(Kept)
    /\ Len(lines) > 1

\* ---------------------------------------------------------------------------
\* Two tasks at once (SpecRuns).  process_video_task is a plain function
\* handed to background_tasks.add_task (api.py:183), so two requests run it
\* on two threads; both use the one TEMP_DIR of config.py.
\* ---------------------------------------------------------------------------

Runs == {1, 2}

AudioNames == {"a.wav", "b.wav"}

\* The paths under temp/ a run touches: the three directories of
\* main.py:115-117 (as one), the cached audio of main.py:146, cover.png
\* (186), subtitles.srt (312), segment_000.mp4 with its batch audio
\* (327-341), merged.mp4 with segments.txt (394, video_generator.py:282).
TempFiles == {"dirs", "cover.png", "subtitles.srt", "segment_000.mp4", "merged.mp4"}
                \cup AudioNames

\* A path holds 0 when absent, else the run that wrote it last.
EmptyTemp == [f \in TempFiles |-> 0]

InitRuns ==
    /\ PipelineIdle
    /\ HAS_GPU = FALSE
    /\ script = <<>>
    /\ cache = [f \in CacheFiles |-> AbsentFile]
    /\ RetryIdle
    /\ TimelineIdle
    /\ CuesIdle
    /\ CallsIdle
    /\ runs \in [Runs -> [pc : {"L119"}, audio : AudioNames, video : {0}]]
    /\ temp = EmptyTemp

RunUnchanged ==
    UNCHANGED <<tasks, pc, exc, request, HAS_GPU, script, retryVars, timelineVars, cueVars,
                callVars, acquisitionVars, renderVars, stageVars, output>>

Goto(r, label) == runs' = [runs EXCEPT ![r].pc = label]

\* An exception leaves create_podcast_video: api.py:109 catches it, and
\* line 107 is not reached.
RunRaises(r) == Goto(r, "failed") /\ UNCHANGED temp

\* open(file, "wb"), img.save, export: a write into a directory that is
\* gone raises.
WriteFile(r, f, label) ==
    IF temp["dirs"] = 0 THEN RunRaises(r)
    ELSE temp' = [temp EXCEPT ![f] = r] /\ Goto(r, label)

\* main.py:119-121: mkdir(parents=True, exist_ok=True)
MakeDirs(r) ==
    /\ runs[r].pc = "L119"
    /\ temp' = [temp EXCEPT !["dirs"] = IF @ = 0 THEN r ELSE @]
    /\ Goto(r, "L127")
    /\ RunUnchanged

\* main.py:146-170: a file already at the path is used as it is, else the
\* download is written there.
AcquireAudio(r) ==
    /\ runs[r].pc = "L127"
    /\ IF temp[runs[r].audio] # 0
         THEN Goto(r, "L186") /\ UNCHANGED temp
         ELSE WriteFile(r, runs[r].audio, "L186")
    /\ RunUnchanged

\* main.py:186-306: the generated image or the placeholder is saved at
\* images/cover.png
SaveCover(r) ==
    /\ runs[r].pc = "L186"
    /\ WriteFile(r, "cover.png", "L312")
    /\ RunUnchanged

\* main.py:312-313: temp/subtitles.srt lies in TEMP_DIR itself, which
\* cleanup_temp_files keeps.
SaveSubtitles(r) ==
    /\ runs[r].pc = "L312"
    /\ temp' = [temp EXCEPT !["subtitles.srt"] = r]
    /\ Goto(r, "L321")
    /\ RunUnchanged

\* main.py:321-350: concatenate_audios passes over a missing audio file
\* (media_processor.py:268-290); ffmpeg fails without cover.png and
\* create_video_segment raises.
RenderBatch(r) ==
    /\ runs[r].pc = "L321"
    /\ IF temp["cover.png"] = 0 THEN RunRaises(r)
       ELSE WriteFile(r, "segment_000.mp4", "L394")
    /\ RunUnchanged

\* main.py:394-395 and video_generator.py:282-301: ffmpeg fails on a listed
\* segment that is gone.
ConcatSegments(r) ==
    /\ runs[r].pc = "L394"
    /\ IF temp["segment_000.mp4"] = 0 THEN RunRaises(r)
       ELSE temp' = [temp EXCEPT !["merged.mp4"] = r] /\ Goto(r, "L412")
    /\ RunUnchanged

\* main.py:412-425: merged.mp4 is copied to the output file of the task,
\* subtitles.srt next to it; shutil.copy raises on a missing source.
ExportRun(r) ==
    /\ runs[r].pc = "L412"
    /\ IF temp["merged.mp4"] = 0 \/ temp["subtitles.srt"] = 0
         THEN RunRaises(r)
         ELSE runs' = [runs EXCEPT ![r].pc = "L107", ![r].video = temp["merged.mp4"]]
              /\ UNCHANGED temp
    /\ RunUnchanged

\* main.py:46-53, called at api.py:107: everything under TEMP_DIR goes.
cleanup_temp_files(r) ==
    /\ runs[r].pc = "L107"
    /\ temp' = EmptyTemp
    /\ Goto(r, "done")
    /\ RunUnchanged

NextRuns ==
    \/ \E r \in Runs : MakeDirs(r)
    \/ \E r \in Runs : AcquireAudio(r)
    \/ \E r \in Runs : SaveCover(r)
    \/ \E r \in Runs : SaveSubtitles(r)
    \/ \E r \in Runs : RenderBatch(r)
    \/ \E r \in Runs : ConcatSegments(r)
    \/ \E r \in Runs : ExportRun(r)
    \/ \E r \in Runs : cleanup_temp_files(r)

SpecRuns == InitRuns /\ [][NextRuns]_vars

\* The files run r has put under temp/ and has yet to read.
StillToRead(r) ==
    CASE runs[r].pc \in {"L186"} -> {runs[r].audio}
      [] runs[r].pc = "L312" -> {runs[r].audio, "cover.png"}
      [] runs[r].pc = "L321" -> {runs[r].audio, "cover.png", "subtitles.srt"}
      [] runs[r].pc = "L394" -> {"subtitles.srt", "segment_000.mp4"}
      [] runs[r].pc = "L412" -> {"subtitles.srt", "merged.mp4"}
      [] OTHER -> {}

\* C16: while a run has yet to read a scratch file, the file is there, and
\* it is the one this run wrote (a cached audio file is the one the run
\* found or wrote): no other run's worker or cleanup has written over it or
\* deleted it.
C16_ScratchIsPrivate ==
    \A r \in Runs : \A f \in StillToRead(r) :
        /\ temp[f] # 0
        /\ f \notin AudioNames => temp[f] = r


====
